---- MODULE Spec2Model ----
(***************************************************************************)
(* Model of the declarative seed engine of initium (src/src/seed).         *)
(*                                                                         *)
(* The executor (seed/executor.rs) is modelled statement by statement as a *)
(* program counter over the database calls it issues; the database is the  *)
(* SqliteDb driver of seed/db.rs on top of a store with a durable state    *)
(* and one open transaction per connection.  Strings are sequences of      *)
(* one-character strings, so that prefix stripping, splitting and the      *)
(* identifier filter are computed the way the code computes them.          *)
(***************************************************************************)
EXTENDS Integers, Sequences, FiniteSets, TLC

(***************************************************************************)
(* Bounds of the exploration.                                              *)
(***************************************************************************)
\* number of execute calls explored one after the other on one database
MaxRuns == 2
\* number of database calls that may return an error over all the runs
MaxFaults == 2
\* number of phases of the plan files given to the loader
MaxPhases == 2
\* length of the names handed to the identifier sanitizer
MaxNameLen == 3
\* how many poll intervals longer than asked a sleep may last
MaxOversleep == 1
\* number of initium processes started one after the other
MaxInvocations == 3
\* number of driver methods a caller invokes on one connection
MaxDriverCalls == 4
\* largest max_attempts of a retry configuration
MaxAttempts == 3
\* latest deadline handed to do_retry, in time units after its call
MaxDeadline == 4
\* number of lines each thread logs
MaxLines == 2
\* number of set_json calls made while the threads log
MaxToggles == 1
\* number of lines the child writes to each of its output streams
MaxChildLines == 2
\* number of lines a pipe holds before the writer blocks
PipeCapacity == 1

(***************************************************************************)
(* Strings.                                                                *)
(***************************************************************************)
Lower == {"a", "b", "c", "d", "e", "f", "g", "h", "i", "j", "k", "l", "m",
          "n", "o", "p", "q", "r", "s", "t", "u", "v", "w", "x", "y", "z"}
Upper == {"A", "B", "C", "D", "E", "F", "G", "H", "I", "J", "K", "L", "M",
          "N", "O", "P", "Q", "R", "S", "T", "U", "V", "W", "X", "Y", "Z"}
Digits == <<"0", "1", "2", "3", "4", "5", "6", "7", "8", "9">>

\* str::strip_prefix: the rest of s when s starts with p
StartsWith(s, p) ==
    /\ Len(s) >= Len(p)
    /\ SubSeq(s, 1, Len(p)) = p

StripPrefix(s, p) == SubSeq(s, Len(p) + 1, Len(s))

\* position of the first occurrence of character c in s, 0 when there is none
RECURSIVE FindFrom(_, _, _)
FindFrom(s, c, i) ==
    IF i > Len(s) THEN 0
    ELSE IF s[i] = c THEN i
    ELSE FindFrom(s, c, i + 1)

\* i64::to_string / Number::to_string for the integers of the model
RECURSIVE DecimalDigits(_)
DecimalDigits(n) ==
    IF n < 10 THEN <<Digits[n + 1]>>
    ELSE DecimalDigits(n \div 10) \o <<Digits[(n % 10) + 1]>>

ToDecimal(n) == IF n < 0 THEN <<"-">> \o DecimalDigits(0 - n) ELSE DecimalDigits(n)

\* char::is_alphanumeric is the Unicode property: it also accepts letters
\* outside ASCII, of which "é" is the representative here
is_alphanumeric(c) == c \in Lower \cup Upper \cup {"é"} \cup {Digits[i] : i \in 1..10}

\* seed/db.rs sanitize_identifier: keep the characters that are
\* alphanumeric or '_'
RECURSIVE sanitize_identifier(_)
sanitize_identifier(name) ==
    IF name = <<>> THEN <<>>
    ELSE (IF is_alphanumeric(Head(name)) \/ Head(name) = "_"
          THEN <<Head(name)>> ELSE <<>>) \o sanitize_identifier(Tail(name))

(***************************************************************************)
(* Plan values (serde_yaml::Value) and the names used by the plans.        *)
(***************************************************************************)
String(s) == [k |-> "String", s |-> s, n |-> 0, b |-> FALSE]
Number(n) == [k |-> "Number", s |-> <<>>, n |-> n, b |-> FALSE]
Bool(b) == [k |-> "Bool", s |-> <<>>, n |-> 0, b |-> b]
Null == [k |-> "Null", s |-> <<>>, n |-> 0, b |-> FALSE]

RefKey == <<"_", "r", "e", "f">>
RefPrefix == <<"@", "r", "e", "f", ":">>
EnvPrefix == <<"$", "e", "n", "v", ":">>

dept == <<"d", "e", "p", "t">>
emp == <<"e", "m", "p">>
c_id == <<"i", "d">>
c_name == <<"n", "a", "m", "e">>
c_dept == <<"d", "e", "p", "t", "_", "i", "d">>
r_eng == <<"e", "n", "g">>
r_ops == <<"o", "p", "s">>
v_Eng == <<"E", "n", "g">>
v_Ops == <<"O", "p", "s">>
v_Al == <<"A", "l">>
e_DEPT == <<"D", "E", "P", "T">>
e_NONE == <<"N", "O", "N", "E">>

\* "@ref:NAME.COL" and "$env:VAR"
RefTo(name, col) == String(RefPrefix \o name \o <<".">> \o col)
EnvOf(var) == String(EnvPrefix \o var)

\* the process environment read by std::env::var
Env == (e_DEPT :> v_Ops)

(***************************************************************************)
(* Plans (seed/schema.rs).  An Option is a sequence of length 0 or 1, a    *)
(* row is a function from its keys to values.                              *)
(***************************************************************************)
None == <<>>
Some(x) == <<x>>

TableSeed(table, order, unique_key, auto_id, rows) ==
    [table |-> table, order |-> order, unique_key |-> unique_key,
     auto_id |-> auto_id, rows |-> rows]

SeedSet(name, order, tables) == [name |-> name, order |-> order, tables |-> tables]

\* schema.rs default_phase_timeout, in seconds
default_phase_timeout == 30

SeedPhase(name, order, seed_sets) ==
    [name |-> name, order |-> order, database |-> <<>>, schema |-> <<>>,
     create_if_missing |-> FALSE, wait_for |-> <<>>,
     timeout |-> default_phase_timeout, seed_sets |-> seed_sets]

\* timeout is None or Some(seconds)
WaitForObject(obj_type, name, timeout) ==
    [obj_type |-> obj_type, name |-> name, timeout |-> timeout]

t_table == <<"t", "a", "b", "l", "e">>
t_view == <<"v", "i", "e", "w">>
t_schema == <<"s", "c", "h", "e", "m", "a">>
t_database == <<"d", "a", "t", "a", "b", "a", "s", "e">>
t_index == <<"i", "n", "d", "e", "x">>

AutoId == Some([column |-> c_id])

\* departments with a reference name, employees pointing at it
DeptRow(ref, name) == (RefKey :> String(ref)) @@ (c_name :> String(name))
NameRow(name) == (c_name :> String(name))
EmpRow(name, dept_ref) == (c_name :> String(name)) @@ (c_dept :> dept_ref)

(***************************************************************************)
(* slice::sort_by_key is a stable sort; the executor sorts references to   *)
(* the declared items, modelled as the sequence of their declared          *)
(* positions.  Desc is sort_by_key(|x| Reverse(x.order)).                  *)
(***************************************************************************)
RECURSIVE InsertSorted(_, _, _, _)
InsertSorted(sorted, i, items, desc) ==
    IF sorted = <<>> THEN <<i>>
    ELSE LET last == sorted[Len(sorted)]
             \* i stays behind every element that does not compare greater
             behind == IF desc THEN items[last].order >= items[i].order
                               ELSE items[last].order <= items[i].order
         IN IF behind THEN Append(sorted, i)
            ELSE Append(InsertSorted(SubSeq(sorted, 1, Len(sorted) - 1), i, items, desc), last)

RECURSIVE SortPrefix(_, _, _)
SortPrefix(items, n, desc) ==
    IF n = 0 THEN <<>>
    ELSE InsertSorted(SortPrefix(items, n - 1, desc), n, items, desc)

\* (mutant) the reset pass sorts ascending like the apply pass
sort_by_key_Reverse_ascending(items) == SortPrefix(items, Len(items), FALSE)

sort_by_key_Reverse(items) == SortPrefix(items, Len(items), TRUE)

\* (mutant) an unstable sort: items with equal order come out reversed
sort_by_key_unstable(items) ==
    [i \in 1..Len(items) |-> sort_by_key_Reverse(items)[Len(items) + 1 - i]]

sort_by_key(items) == SortPrefix(items, Len(items), FALSE)

(***************************************************************************)
(* Results: Result<T, String> as a record, errors as tuples of their       *)
(* message parts.                                                          *)
(***************************************************************************)
Ok(v) == [ok |-> TRUE, v |-> v, e |-> <<>>]
Err(e) == [ok |-> FALSE, v |-> <<>>, e |-> e]

(***************************************************************************)
(* SeedPlan::validate (seed/schema.rs): the first error in the order the   *)
(* loops meet it.                                                          *)
(***************************************************************************)
\* a sequence of `?` calls: the first Err of results, Ok(()) when none
RECURSIVE FirstErr(_)
FirstErr(results) ==
    IF results = <<>> THEN Ok(<<>>)
    ELSE IF ~Head(results).ok THEN Head(results)
    ELSE FirstErr(Tail(results))

valid_types == {t_table, t_view, t_schema, t_database}

\* (mutant) the type of a wait_for entry is not checked
validate_wait_for_any_type(wf) ==
    IF wf.name = <<>>
    THEN Err(<<"wait_for name must not be empty for type", wf.obj_type>>)
    ELSE Ok(<<>>)

validate_wait_for(wf) ==
    IF wf.obj_type \notin valid_types
    THEN Err(<<"unsupported wait_for type", wf.obj_type>>)
    ELSE IF wf.name = <<>>
    THEN Err(<<"wait_for name must not be empty for type", wf.obj_type>>)
    ELSE Ok(<<>>)

validate_seed_set(ss) ==
    IF ss.name = <<>> THEN Err(<<"seed_set name must not be empty">>)
    ELSE IF ss.tables = <<>>
    THEN Err(<<"seed_set must contain at least one table", ss.name>>)
    ELSE FirstErr([t \in 1..Len(ss.tables) |->
                    IF ss.tables[t].table = <<>>
                    THEN Err(<<"table name must not be empty in seed_set", ss.name>>)
                    ELSE Ok(<<>>)])

validate(p) ==
    IF p.phases = <<>> THEN Err(<<"seed plan must contain at least one phase">>)
    ELSE FirstErr([i \in 1..Len(p.phases) |->
            LET phase == p.phases[i]
            IN IF phase.name = <<>> THEN Err(<<"phase name must not be empty">>)
               ELSE FirstErr(
                      [w \in 1..Len(phase.wait_for) |-> validate_wait_for(phase.wait_for[w])]
                      \o [q \in 1..Len(phase.seed_sets) |->
                            validate_seed_set(phase.seed_sets[q])])])

(***************************************************************************)
(* Reference store and value resolver (seed/executor.rs).                  *)
(***************************************************************************)
\* resolve_reference: split "name.column" at the first '.', look the name
\* up in the reference store and the column in its record
\* (mutant) a name that is not registered resolves to the empty string
resolve_reference_lenient(expr, store) ==
    LET dot == FindFrom(expr, ".", 1)
        ref_name == SubSeq(expr, 1, dot - 1)
        column == SubSeq(expr, dot + 1, Len(expr))
    IN IF dot = 0 THEN Err(<<"invalid reference", expr>>)
       ELSE IF ref_name \notin DOMAIN store THEN Ok(<<>>)
       ELSE IF column \notin DOMAIN store[ref_name]
            THEN Err(<<"column not found in reference", column, ref_name>>)
       ELSE Ok(store[ref_name][column])

resolve_reference(expr, store) ==
    LET dot == FindFrom(expr, ".", 1)
        ref_name == SubSeq(expr, 1, dot - 1)
        column == SubSeq(expr, dot + 1, Len(expr))
    IN IF dot = 0 THEN Err(<<"invalid reference", expr>>)
       ELSE IF ref_name \notin DOMAIN store THEN Err(<<"reference not found", ref_name>>)
       ELSE IF column \notin DOMAIN store[ref_name]
            THEN Err(<<"column not found in reference", column, ref_name>>)
       ELSE Ok(store[ref_name][column])

resolve_value(val, store) ==
    CASE val.k = "String" ->
           IF StartsWith(val.s, RefPrefix)
           THEN resolve_reference(StripPrefix(val.s, RefPrefix), store)
           ELSE IF StartsWith(val.s, EnvPrefix)
           THEN LET env_expr == StripPrefix(val.s, EnvPrefix)
                IN IF env_expr \in DOMAIN Env THEN Ok(Env[env_expr])
                   ELSE Err(<<"environment variable not set", env_expr>>)
           ELSE Ok(val.s)
      [] val.k = "Number" -> Ok(ToDecimal(val.n))
      [] val.k = "Bool" -> Ok(IF val.b THEN <<"t", "r", "u", "e">>
                                       ELSE <<"f", "a", "l", "s", "e">>)
      [] val.k = "Null" -> Ok(<<>>)

\* (mutant) the generated id is not captured
ref_map_without_id(values, auto_id, generated_id) == values

\* the record captured for a row that carries _ref: every submitted column
\* with its resolved value, then the generated id under the auto_id column
ref_map(values, auto_id, generated_id) ==
    IF auto_id # None /\ generated_id # None
    THEN [c \in DOMAIN values \cup {auto_id[1].column} |->
            IF c = auto_id[1].column THEN ToDecimal(generated_id[1]) ELSE values[c]]
    ELSE values

\* (mutant) a name that is already registered keeps its first record
refs_insert_keep_first(store, ref_key, record) ==
    [n \in DOMAIN store \cup {ref_key} |-> IF n \in DOMAIN store THEN store[n] ELSE record]

\* HashMap::insert on the reference store
refs_insert(store, ref_key, record) ==
    [n \in DOMAIN store \cup {ref_key} |-> IF n = ref_key THEN record ELSE store[n]]

(***************************************************************************)
(* The SqliteDb driver (seed/db.rs) over one view of the database: the     *)
(* rows of each table, each with its rowid, and the names in the tracking  *)
(* table.                                                                  *)
(***************************************************************************)
Tables == {dept, emp}
EmptyDb == [tables |-> [t \in Tables |-> {}], tracking |-> {}]

\* (mutant) the status query never finds the name
is_seed_applied_never(view, seed_set) == FALSE

is_seed_applied(view, seed_set) == Cardinality({s \in view.tracking : s = seed_set}) > 0

\* (mutant) the mark is not written
mark_seed_applied_dropped(view, seed_set) == view

\* INSERT OR IGNORE INTO tracking (seed_set)
mark_seed_applied(view, seed_set) == [view EXCEPT !.tracking = @ \cup {seed_set}]

\* (mutant) DELETE FROM tracking without the WHERE clause
remove_seed_mark_all(view, seed_set) == [view EXCEPT !.tracking = {}]

\* DELETE FROM tracking WHERE seed_set = ?
remove_seed_mark(view, seed_set) == [view EXCEPT !.tracking = @ \ {seed_set}]

\* (mutant) the existence check never finds the row
row_exists_never(view, table, unique) == FALSE

\* SELECT COUNT(*) FROM table WHERE c1 = v1 AND ... > 0; no query and false
\* when there is no unique column
row_exists(view, table, unique) ==
    IF DOMAIN unique = {} THEN FALSE
    ELSE Cardinality({r \in view.tables[sanitize_identifier(table)] :
            \A c \in DOMAIN unique :
                /\ sanitize_identifier(c) \in DOMAIN r.cols
                /\ r.cols[sanitize_identifier(c)] = unique[c]}) > 0

\* sqlite assigns the largest rowid of the table plus one
next_rowid(rows) ==
    IF rows = {} THEN 1
    ELSE 1 + CHOOSE m \in {r.rowid : r \in rows} : \A r \in rows : r.rowid <= m

\* INSERT INTO table (columns) VALUES (values); last_insert_rowid()
insert_row(view, table, values) ==
    LET t == sanitize_identifier(table)
        id == next_rowid(view.tables[t])
        cols == [sc \in {sanitize_identifier(c) : c \in DOMAIN values} |->
                    values[CHOOSE c \in DOMAIN values : sanitize_identifier(c) = sc]]
    IN [view |-> [view EXCEPT !.tables[t] = @ \cup {[rowid |-> id, cols |-> cols]}],
        id |-> id]

\* DELETE FROM table; the affected row count
delete_rows(view, table) ==
    [view |-> [view EXCEPT !.tables[sanitize_identifier(table)] = {}],
     count |-> Cardinality(view.tables[sanitize_identifier(table)])]

\* SqliteDb::begin_transaction, commit_transaction and rollback_transaction
\* on the connection c = [db, txn, in_transaction] when the statement they
\* issue succeeds
\* (mutant) the flag is set but no BEGIN is issued: the writes autocommit
begin_transaction_flag_only(c) == [c EXCEPT !.in_transaction = TRUE]

begin_transaction(c) == [c EXCEPT !.txn = Some(c.db), !.in_transaction = TRUE]

\* (mutant) COMMIT is issued but the flag is not cleared
commit_transaction_keeps_flag(c) ==
    IF c.in_transaction
    THEN [db |-> IF c.txn # None THEN c.txn[1] ELSE c.db, txn |-> None, in_transaction |-> TRUE]
    ELSE c

commit_transaction(c) ==
    IF c.in_transaction
    THEN [db |-> IF c.txn # None THEN c.txn[1] ELSE c.db, txn |-> None, in_transaction |-> FALSE]
    ELSE c

\* (mutant) the error arm ends the transaction with COMMIT
rollback_transaction_commits(c) == commit_transaction(c)

rollback_transaction(c) ==
    IF c.in_transaction
    THEN [c EXCEPT !.txn = None, !.in_transaction = FALSE]
    ELSE c

\* the driver named by the plan's database section; a plan written without
\* one names sqlite, as the plans of the executor tests do
driver_name(p) == IF "database" \in DOMAIN p THEN p.database.driver ELSE "sqlite"

\* SqliteDb::create_database and create_schema
sqlite_create_database == Err(<<"sqlite does not support CREATE DATABASE">>)
sqlite_create_schema == Err(<<"sqlite does not support schemas">>)
\* PostgresDb::create_database (CREATE DATABASE unless pg_database lists it)
\* and create_schema (CREATE SCHEMA IF NOT EXISTS): Ok unless a statement
\* fails
postgres_create_database(name, fail) ==
    IF fail THEN Err(<<"creating database", name>>) ELSE Ok(<<>>)
postgres_create_schema(name, fail) ==
    IF fail THEN Err(<<"creating schema", name>>) ELSE Ok(<<>>)
\* the method of the driver that connect returned
create_database(driver, name, fail) ==
    IF driver = "sqlite" THEN sqlite_create_database
    ELSE postgres_create_database(name, fail)
create_schema(driver, name, fail) ==
    IF driver = "sqlite" THEN sqlite_create_schema
    ELSE postgres_create_schema(name, fail)

\* (mutant) the databases and schemas are created after the wait
create_if_missing_late(ph) == <<>>

\* execute_phase, lines 55-70: the creation calls the phase asks for
create_if_missing(ph) ==
    IF ~ph.create_if_missing THEN <<>>
    ELSE (IF ph.database # <<>> THEN <<[op |-> "create_database", name |-> ph.database]>>
          ELSE <<>>)
         \o (IF ph.schema # <<>> THEN <<[op |-> "create_schema", name |-> ph.schema]>>
             ELSE <<>>)

\* "table" and "view" are looked up in sqlite_master; present says whether
\* an object the model does not hold has been created there by now
object_exists(obj_type, name, present) ==
    IF obj_type = t_table THEN Ok(sanitize_identifier(name) \in Tables \/ present)
    ELSE IF obj_type = t_view THEN Ok(present)
    ELSE IF obj_type = t_schema THEN Err(<<"sqlite does not support schemas">>)
    ELSE IF obj_type = t_database
    THEN Err(<<"sqlite does not support checking database existence">>)
    ELSE Err(<<"unsupported object type for sqlite", obj_type>>)

(***************************************************************************)
(* Durations in milliseconds (duration.rs) and the wait-for prober         *)
(* (seed/executor.rs wait_for_object).                                     *)
(***************************************************************************)
\* parse_duration of the decimal form of a u64: a bare number is seconds
parse_duration(secs) == Ok(secs * 1000)

format_duration(d) ==
    IF d = 0 THEN <<"0", "s">>
    ELSE LET total_secs == d \div 1000
             ms == d % 1000
             h == total_secs \div 3600
             m == (total_secs % 3600) \div 60
             sec == total_secs % 60
         IN (IF h > 0 THEN ToDecimal(h) \o <<"h">> ELSE <<>>)
            \o (IF m > 0 THEN ToDecimal(m) \o <<"m">> ELSE <<>>)
            \o (IF sec > 0 THEN ToDecimal(sec) \o <<"s">> ELSE <<>>)
            \o (IF ms > 0 THEN ToDecimal(ms) \o <<"m", "s">> ELSE <<>>)

\* Duration::from_millis(500)
poll_interval == 500

\* (mutant) the per-object timeout is ignored
timeout_dur_phase_only(wf, phase) == parse_duration(phase.timeout)

\* lines 98-101: the timeout of the entry, else the timeout of the phase
timeout_dur(wf, phase) ==
    IF wf.timeout # None THEN parse_duration(wf.timeout[1])
    ELSE parse_duration(phase.timeout)

\* (mutant) an error of object_exists is polled again like Ok(false)
on_probe_retries_errors(r, elapsed, timeout) ==
    IF r.ok /\ r.v THEN "found"
    ELSE IF elapsed >= timeout THEN "timeout"
    ELSE "sleep"

\* lines 114-143, one turn of the loop: what follows the result r of
\* object_exists when elapsed milliseconds of the timeout have passed
on_probe(r, elapsed, timeout) ==
    IF ~r.ok THEN "error"
    ELSE IF r.v THEN "found"
    ELSE IF elapsed >= timeout THEN "timeout"
    ELSE "sleep"

(***************************************************************************)
(* The plans explored.  Each is accepted by SeedPlan::validate and has     *)
(* pairwise distinct seed-set names.                                       *)
(***************************************************************************)
n_p1 == <<"p", "1">>
n_p2 == <<"p", "2">>
n_s1 == <<"s", "1">>
n_s2 == <<"s", "2">>
n_s3 == <<"s", "3">>

\* one seed set, a unique key with a duplicate declaration and a row that
\* declares no key column
PlanDuplicates ==
    [phases |-> <<
        SeedPhase(n_p1, 0, <<
            SeedSet(n_s1, 0, <<
                TableSeed(dept, 0, <<c_name>>, AutoId,
                          <<NameRow(v_Eng), NameRow(v_Eng), (c_dept :> Number(7))>>) >>) >>) >>]

\* two phases declared out of order; the first one executed registers a
\* reference that its own second table and the later phase consume
PlanReferences ==
    [phases |-> <<
        SeedPhase(n_p2, 2, <<
            SeedSet(n_s2, 0, <<
                TableSeed(emp, 0, <<>>, None,
                          <<EmpRow(v_Ops, RefTo(r_eng, c_id))>>) >>) >>),
        SeedPhase(n_p1, 1, <<
            SeedSet(n_s1, 0, <<
                TableSeed(emp, 2, <<>>, None,
                          <<EmpRow(v_Al, RefTo(r_eng, c_id))>>),
                TableSeed(dept, 1, <<c_name>>, AutoId,
                          <<DeptRow(r_eng, v_Eng)>>) >>) >>) >>]

\* two seed sets of one phase seed the same table, the first without a
\* unique key
PlanSharedTable ==
    [phases |-> <<
        SeedPhase(n_p1, 0, <<
            SeedSet(n_s1, 1, <<
                TableSeed(dept, 0, <<>>, None,
                          <<NameRow(v_Eng), NameRow(v_Eng)>>) >>),
            SeedSet(n_s2, 2, <<
                TableSeed(dept, 0, <<c_name>>, None,
                          <<NameRow(v_Eng), (c_name :> EnvOf(e_DEPT))>>) >>) >>) >>]

\* the second seed set fails while resolving its second row: the reference
\* it names is never registered
PlanDangling ==
    [phases |-> <<
        SeedPhase(n_p1, 0, <<
            SeedSet(n_s1, 1, <<
                TableSeed(dept, 0, <<>>, None, <<NameRow(v_Eng)>>) >>),
            SeedSet(n_s2, 2, <<
                TableSeed(emp, 0, <<>>, None,
                          <<EmpRow(v_Al, Null),
                            EmpRow(v_Ops, RefTo(<<"z">>, c_id))>>) >>) >>) >>]

\* one reference name registered by two rows, a reference to a plain column
PlanRebind ==
    [phases |-> <<
        SeedPhase(n_p1, 0, <<
            SeedSet(n_s1, 0, <<
                TableSeed(dept, 1, <<>>, AutoId,
                          <<DeptRow(r_eng, v_Eng), DeptRow(r_eng, v_Ops)>>),
                TableSeed(emp, 2, <<>>, None,
                          <<EmpRow(v_Al, RefTo(r_eng, c_id)),
                            (c_name :> RefTo(r_eng, c_name)) @@ (c_dept :> Bool(TRUE))>>) >>) >>) >>]

\* a phase without seed sets, then a phase that asks for its schema to be
\* created
PlanCreate ==
    [phases |-> <<
        SeedPhase(n_p1, 1, <<>>),
        [SeedPhase(n_p2, 2, <<
            SeedSet(n_s1, 0, <<
                TableSeed(dept, 0, <<>>, None, <<NameRow(v_Eng)>>) >>) >>)
         EXCEPT !.schema = <<"a", "p", "p">>, !.create_if_missing = TRUE] >>]

\* a phase that waits for a table that exists, for a table that may never
\* appear (phase timeout) and for a view (its own timeout)
PlanWait ==
    [phases |-> <<
        [SeedPhase(n_p1, 0, <<
            SeedSet(n_s1, 0, <<
                TableSeed(dept, 0, <<>>, None, <<NameRow(v_Eng)>>) >>) >>)
         EXCEPT !.timeout = 1,
                !.wait_for = <<WaitForObject(t_table, dept, None),
                               WaitForObject(t_table, <<"z", "z">>, None),
                               WaitForObject(t_view, <<"v", "v">>, Some(0))>>] >>]

\* the second phase waits for a schema, which SqliteDb cannot look up
PlanWaitSchema ==
    [phases |-> <<
        SeedPhase(n_p1, 1, <<
            SeedSet(n_s1, 0, <<
                TableSeed(dept, 0, <<>>, None, <<NameRow(v_Eng)>>) >>) >>),
        [SeedPhase(n_p2, 2, <<
            SeedSet(n_s2, 0, <<
                TableSeed(emp, 0, <<>>, None, <<NameRow(v_Al)>>) >>) >>)
         EXCEPT !.wait_for = <<WaitForObject(t_schema, <<"a", "p", "p">>, None)>>] >>]

\* phases, seed sets and tables with equal order values, declared against
\* the order of their names
PlanTies ==
    [phases |-> <<
        SeedPhase(n_p2, 1, <<
            SeedSet(n_s2, 0, <<
                TableSeed(dept, 0, <<>>, None, <<NameRow(v_Eng)>>) >>),
            SeedSet(n_s1, 0, <<
                TableSeed(emp, 0, <<>>, None, <<NameRow(v_Al), NameRow(v_Al)>>),
                TableSeed(dept, 0, <<>>, None, <<NameRow(v_Ops)>>) >>) >>),
        SeedPhase(n_p1, 1, <<
            SeedSet(n_s3, 0, <<
                TableSeed(emp, 0, <<>>, None, <<NameRow(v_Ops)>>) >>) >>) >>]

\* the second seed set of the phase consumes a reference that the first
\* one registers
PlanSeedSetRef ==
    [phases |-> <<
        SeedPhase(n_p1, 0, <<
            SeedSet(n_s1, 1, <<
                TableSeed(dept, 0, <<>>, AutoId, <<DeptRow(r_eng, v_Eng)>>) >>),
            SeedSet(n_s2, 2, <<
                TableSeed(emp, 0, <<>>, None,
                          <<EmpRow(v_Al, RefTo(r_eng, c_id))>>) >>) >>) >>]

\* the second department row repeats the unique key of the first under
\* another reference name and is skipped; an employee row refers to it
PlanSkippedRef ==
    [phases |-> <<
        SeedPhase(n_p1, 0, <<
            SeedSet(n_s1, 0, <<
                TableSeed(dept, 1, <<c_name>>, AutoId,
                          <<DeptRow(r_eng, v_Eng), DeptRow(r_ops, v_Eng)>>),
                TableSeed(emp, 2, <<>>, None,
                          <<EmpRow(v_Al, RefTo(r_eng, c_id)),
                            EmpRow(v_Ops, RefTo(r_ops, c_id))>>) >>) >>) >>]

\* a seed set whose tables have no rows, then one with a row
PlanEmptyRows ==
    [phases |-> <<
        SeedPhase(n_p1, 0, <<
            SeedSet(n_s1, 1, <<
                TableSeed(dept, 1, <<c_name>>, None, <<>>),
                TableSeed(emp, 2, <<>>, None, <<>>) >>),
            SeedSet(n_s2, 2, <<
                TableSeed(dept, 1, <<>>, None, <<NameRow(v_Eng)>>) >>) >>) >>]

\* a postgres plan whose phase creates its database and schema, waits for
\* a table and seeds it
PlanCreatePostgres ==
    [database |-> [driver |-> "postgres"],
     phases |-> <<
        [SeedPhase(n_p1, 0, <<
            SeedSet(n_s1, 0, <<
                TableSeed(dept, 0, <<>>, None, <<NameRow(v_Eng)>>) >>) >>)
         EXCEPT !.database = <<"a", "p", "p">>, !.schema = <<"a", "p", "p">>,
                !.create_if_missing = TRUE,
                !.wait_for = <<WaitForObject(t_table, dept, None)>>] >>]

Plans == {PlanDuplicates, PlanReferences, PlanSharedTable, PlanDangling, PlanRebind,
          PlanCreate, PlanWait, PlanWaitSchema, PlanTies, PlanSeedSetRef,
          PlanCreatePostgres, PlanSkippedRef, PlanEmptyRows}

(***************************************************************************)
(* The plan files given to SeedPlan::from_yaml: every plan of at most      *)
(* MaxPhases phases built from the phases below, which cover each defect   *)
(* validate looks for, alone and combined.                                 *)
(***************************************************************************)
LoadedTable(t) == TableSeed(t, 0, <<>>, None, <<>>)
LoadedPhase(name, wait_for, seed_sets) ==
    [SeedPhase(name, 0, seed_sets) EXCEPT !.wait_for = wait_for]
LoadedPhases ==
    {LoadedPhase(n_p1, <<>>, <<SeedSet(n_s1, 0, <<LoadedTable(dept)>>)>>),
     LoadedPhase(n_p1, <<>>, <<>>),
     LoadedPhase(n_p1, <<WaitForObject(t_view, dept, None)>>,
                 <<SeedSet(n_s2, 0, <<LoadedTable(dept)>>)>>),
     LoadedPhase(<<>>, <<>>, <<SeedSet(n_s1, 0, <<LoadedTable(dept)>>)>>),
     LoadedPhase(n_p1, <<WaitForObject(t_index, dept, None)>>, <<>>),
     LoadedPhase(n_p1, <<WaitForObject(t_table, <<>>, None)>>, <<>>),
     LoadedPhase(n_p1, <<WaitForObject(t_table, dept, None),
                         WaitForObject(t_index, <<>>, None)>>, <<>>),
     LoadedPhase(n_p1, <<>>, <<SeedSet(n_s1, 0, <<>>)>>),
     LoadedPhase(n_p1, <<>>, <<SeedSet(n_s1, 0, <<LoadedTable(dept), LoadedTable(<<>>)>>)>>),
     LoadedPhase(n_p1, <<>>, <<SeedSet(<<>>, 0, <<LoadedTable(dept)>>)>>),
     LoadedPhase(<<>>, <<>>, <<SeedSet(n_s1, 0, <<>>)>>)}
LoadedPlans ==
    UNION {{[phases |-> ps] : ps \in [1..k -> LoadedPhases]} : k \in 0..MaxPhases}

(***************************************************************************)
(* State.                                                                  *)
(***************************************************************************)
VARIABLES
    plan,            \* the SeedPlan given to execute
    run,             \* number of execute calls started so far
    reset,           \* SeedExecutor.reset of the current executor
    refs,            \* SeedExecutor.refs
    in_transaction,  \* SqliteDb.in_transaction of the executor's connection
    db,              \* the durable (committed) state of the database
    txn,             \* the open transaction of the connection: None or Some(view)
    pc,              \* the statement of the executor that runs next
    phase_i,         \* position in the sorted phases
    ss_i,            \* position in the sorted seed sets of the phase
    table_i,         \* position in the sorted tables of the seed set
    row_i,           \* position in the rows of the table
    wf_i,            \* position in the wait_for entries of the phase
    waited,          \* milliseconds since wait_for_object computed its deadline
    step_err,        \* the Err(e) of apply_seed_set_tables kept across the rollback
    result,          \* what execute returned: None while it runs
    calls,           \* the driver calls of the current execute, in order
    faults,          \* number of driver calls that may still fail
    prev,            \* the database and the outcome when the current execute started
    ident,           \* a name handed to sanitize_identifier
    sql,             \* the identifier interpolated into the SQL text: None or Some(s)
    workdir,         \* --workdir / INITIUM_WORKDIR of the migrate invocations
    lock_file,       \* --lock-file / INITIUM_LOCK_FILE of the migrate invocations
    lock_exists,     \* whether the lock file is on disk
    cli,             \* the command line and environment of the running process
    main_pc,         \* the statement of main that runs next
    cmd_result,      \* what the subcommand returned: None or Some(result)
    exit_status,     \* the exit code of the process: None while it runs
    error_logs,      \* number of ERROR lines the process has logged
    events,          \* exits of the migration command and lock-file writes, in order
    invocations,     \* number of processes started so far
    pg,              \* the committed state of a database shared by two executors
    workers,         \* the executors that share it: position, open transaction
    retry_cfg,       \* the retry::Config handed to do_retry
    deadline,        \* the deadline handed to do_retry: None or Some(instant)
    now,             \* the clock, in time units since do_retry was called
    attempt,         \* the loop variable of do_retry
    retry_pc,        \* the statement of do_retry that runs next
    retry_trace,     \* the calls of f, the delays computed and the sleeps, in order
    retry_result,    \* the RetryResult returned: None while do_retry runs
    log_out,         \* what the Logger's output has received, one write call each
    out_lock,        \* the thread that holds the Mutex of out: 0 when free
    json_mode,       \* the JSON-mode toggle of the Logger
    loggers,         \* the threads that call the Logger: statement, local copies
    toggles,         \* number of set_json calls made so far
    child,           \* the spawned command: what it has left to write, its exit
    pipes,           \* its stdout and stderr pipes: lines in flight, open ends
    readers,         \* the two stream_lines threads
    logged,          \* the lines handed to log.info, in order
    command_pc,      \* the statement of run_command_in_dir that runs next
    command_code     \* what run_command_in_dir returned: None or Some(code)

\* the state of the seed executor and its connection
seeder == <<plan, run, reset, refs, in_transaction, db, txn, pc, phase_i, ss_i,
            table_i, row_i, wf_i, waited, step_err, result, calls, faults, prev>>
\* the state outside the seed executor
process == <<workdir, lock_file, lock_exists, cli, main_pc, cmd_result, exit_status,
             error_logs, events, invocations>>
cluster == <<pg, workers>>
retrier == <<retry_cfg, deadline, now, attempt, retry_pc, retry_trace, retry_result>>
logging == <<log_out, out_lock, json_mode, loggers, toggles>>
command == <<child, pipes, readers, logged, command_pc, command_code>>
auxiliary == <<retrier, logging, command>>
elsewhere == <<ident, sql, process, cluster, auxiliary>>
vars == <<seeder, elsewhere>>

Running == {"ensure_tracking_table", "execute_phase", "object_exists", "sleep",
            "delete_rows", "remove_seed_mark",
            "is_seed_applied", "begin_transaction", "apply_table_seed",
            "mark_seed_applied", "commit_transaction", "rollback_transaction"}
Finished == {"done", "failed", "crashed"}

\* the view the connection reads and writes: its open transaction, else the
\* durable state (autocommit)
View == IF txn # None THEN txn[1] ELSE db

Write(view) ==
    IF txn # None THEN txn' = Some(view) /\ db' = db
    ELSE db' = view /\ txn' = txn

\* the executor's connection, and its state after a driver method
Conn == [db |-> db, txn |-> txn, in_transaction |-> in_transaction]
SetConn(c) ==
    /\ db' = c.db
    /\ txn' = c.txn
    /\ in_transaction' = c.in_transaction

\* positions of the sorted references into the declared items
PhaseOrder == sort_by_key(plan.phases)
CurPhase == plan.phases[PhaseOrder[phase_i]]
SeedSetOrder ==
    IF reset THEN sort_by_key_Reverse(CurPhase.seed_sets) ELSE sort_by_key(CurPhase.seed_sets)
CurSeedSet == CurPhase.seed_sets[SeedSetOrder[ss_i]]
ResetTableOrder == sort_by_key_Reverse(CurSeedSet.tables)
ApplyTableOrder == sort_by_key(CurSeedSet.tables)
\* the declared position <<phase, seed set>> of the seed set being executed
CurId == <<PhaseOrder[phase_i], SeedSetOrder[ss_i]>>
NoId == <<0, 0>>

\* one driver call: the seed set and the declared <<table, row>> it was made
\* for, its arguments, whether it returned Ok and the value it returned
CallAt(op, id, at, table, values, ok, val) ==
    [op |-> op, ss |-> id, at |-> at, table |-> table, values |-> values,
     ok |-> ok, val |-> val]
Call(op, id, table, values, ok, val) == CallAt(op, id, <<0, 0>>, table, values, ok, val)

Goto(p, ph, s, t, r) ==
    /\ pc' = p
    /\ phase_i' = ph
    /\ ss_i' = s
    /\ table_i' = t
    /\ row_i' = r
    /\ wf_i' = 1
    /\ waited' = 0

\* inside wait_for_object for entry w of the phase, el milliseconds after
\* the deadline was computed
GotoProbe(p, w, el) ==
    /\ pc' = p
    /\ wf_i' = w
    /\ waited' = el
    /\ UNCHANGED <<phase_i, ss_i, table_i, row_i>>

\* a `?` that propagates error e out of execute
Return(r) ==
    /\ pc' = IF r.ok THEN "done" ELSE "failed"
    /\ result' = Some(r)
    /\ UNCHANGED <<phase_i, ss_i, table_i, row_i, wf_i, waited>>

MayFail == IF faults > 0 THEN {FALSE, TRUE} ELSE {FALSE}
Spend(fail) == faults' = IF fail THEN faults - 1 ELSE faults

\* the seed set whose transaction is open according to the calls so far:
\* the last successful begin_transaction with no successful commit or
\* rollback after it
RECURSIVE OpenTxnOf(_)
OpenTxnOf(log) ==
    IF log = <<>> THEN NoId
    ELSE LET c == log[Len(log)]
         IN IF c.ok /\ c.op = "begin_transaction" THEN c.ss
            ELSE IF c.ok /\ c.op \in {"commit_transaction", "rollback_transaction"} THEN NoId
            ELSE OpenTxnOf(SubSeq(log, 1, Len(log) - 1))

\* no initium process has been started
NoCli == [command |-> "none", args_empty |-> TRUE, sidecar_flag |-> FALSE,
          sidecar_env |-> FALSE]
ProcessIdle ==
    /\ workdir = <<>>
    /\ lock_file = <<>>
    /\ lock_exists = FALSE
    /\ cli = NoCli
    /\ main_pc = "idle"
    /\ cmd_result = None
    /\ exit_status = None
    /\ error_logs = 0
    /\ events = <<>>
    /\ invocations = 0

\* no second executor shares a database
ClusterIdle ==
    /\ pg = [rows |-> {}, tracking |-> {}]
    /\ workers = <<>>
\* do_retry has not been called
RetryIdle ==
    /\ retry_cfg = [max_attempts |-> 1, initial_delay |-> 1, max_delay |-> 1,
                    backoff_factor |-> 1, jitter_fraction |-> 0]
    /\ deadline = None
    /\ now = 0
    /\ attempt = 0
    /\ retry_pc = "idle"
    /\ retry_trace = <<>>
    /\ retry_result = None
\* Logger::new: nothing written, no thread logging
LoggerIdle ==
    /\ log_out = <<>>
    /\ out_lock = 0
    /\ json_mode = FALSE
    /\ loggers = <<>>
    /\ toggles = 0
\* no command has been spawned
CommandIdle ==
    /\ child = <<>>
    /\ pipes = <<>>
    /\ readers = <<>>
    /\ logged = <<>>
    /\ command_pc = "idle"
    /\ command_code = None
AuxiliaryIdle == RetryIdle /\ LoggerIdle /\ CommandIdle

(***************************************************************************)
(* Init: a fresh database (the seeded tables exist and are empty, nothing  *)
(* is marked), no executor yet.                                            *)
(***************************************************************************)
Init ==
    /\ plan \in Plans
    /\ run = 0
    /\ reset = FALSE
    /\ refs = <<>>
    /\ in_transaction = FALSE
    /\ db = EmptyDb
    /\ txn = None
    /\ pc = "init"
    /\ phase_i = 1 /\ ss_i = 1 /\ table_i = 1 /\ row_i = 1
    /\ wf_i = 1 /\ waited = 0
    /\ step_err = None
    /\ result = None
    /\ calls = <<>>
    /\ faults = MaxFaults
    /\ prev = [db |-> EmptyDb, outcome |-> "init", reset |-> FALSE, cut |-> NoId]
    /\ ident = <<>> /\ sql = None
    /\ ProcessIdle
    /\ ClusterIdle
    /\ AuxiliaryIdle

(***************************************************************************)
(* seed::run / the tests: an execute call starts, on a new executor with a *)
(* new connection (SeedExecutor::new, SqliteDb::connect) or, after a       *)
(* successful execute, on the same executor again.                         *)
(***************************************************************************)
StartRun(r, fresh) ==
    /\ pc \in {"init"} \cup Finished
    /\ run < MaxRuns
    /\ ~fresh => (pc = "done" /\ r = reset)
    /\ run' = run + 1
    /\ reset' = r
    /\ IF fresh
       THEN refs' = <<>> /\ in_transaction' = FALSE /\ txn' = None
       ELSE UNCHANGED <<refs, in_transaction, txn>>
    /\ prev' = [db |-> db, outcome |-> pc, reset |-> reset, cut |-> OpenTxnOf(calls)]
    /\ Goto("ensure_tracking_table", 1, 1, 1, 1)
    /\ step_err' = None
    /\ result' = None
    /\ calls' = <<>>
    /\ UNCHANGED <<elsewhere, plan, db, faults>>

\* execute, lines 32-36: ensure_tracking_table(...)?, then execute_phases
\* sorts the phases and starts the first one
EnsureTrackingTable ==
    /\ pc = "ensure_tracking_table"
    /\ \E fail \in MayFail :
        /\ Spend(fail)
        /\ calls' = Append(calls, Call("ensure_tracking_table", NoId, <<>>, <<>>, ~fail, 0))
        /\ IF fail THEN Return(Err(<<"creating tracking table">>))
           ELSE Goto("execute_phase", 1, 1, 1, 1) /\ UNCHANGED result
    /\ UNCHANGED <<elsewhere, plan, run, reset, refs, in_transaction, db, txn, step_err, prev>>

\* where execute_seed_set starts for seed set s of phase ph (validate
\* guarantees at least one table)
EnterSeedSet(ph, s) ==
    Goto(IF reset THEN "delete_rows" ELSE "is_seed_applied", ph, s, 1, 1)

\* execute_phase returned Ok: the next phase, or execute returns Ok
PhaseCompleted ==
    IF phase_i < Len(plan.phases)
    THEN Goto("execute_phase", phase_i + 1, 1, 1, 1) /\ UNCHANGED result
    ELSE Return(Ok(<<>>))

\* execute_seed_set returned Ok: the next seed set of the phase
SeedSetCompleted ==
    IF ss_i < Len(CurPhase.seed_sets)
    THEN EnterSeedSet(phase_i, ss_i + 1) /\ UNCHANGED result
    ELSE PhaseCompleted

\* execute_phase, lines 78-86: the sorted seed sets of the phase
StartSeedSets ==
    IF CurPhase.seed_sets = <<>> THEN PhaseCompleted
    ELSE EnterSeedSet(phase_i, 1) /\ UNCHANGED result

\* the result of creation call k of the phase when the statement of call
\* failing (0: none) fails
Created(ph, k, failing) ==
    LET c == create_if_missing(ph)[k]
    IN IF c.op = "create_database"
       THEN create_database(driver_name(plan), c.name, k = failing)
       ELSE create_schema(driver_name(plan), c.name, k = failing)

\* execute_phase, lines 51-86: the creation calls up to the first that
\* returns Err, then the wait_for entries, then the sorted seed sets
ExecutePhase ==
    /\ pc = "execute_phase"
    /\ LET ph == CurPhase
           creates == create_if_missing(ph)
       IN \E failing \in 0..(IF faults > 0 THEN Len(creates) ELSE 0) :
           LET errs == {k \in 1..Len(creates) : ~Created(ph, k, failing).ok}
               made == IF errs = {} THEN Len(creates)
                       ELSE CHOOSE k \in errs : \A e \in errs : k <= e
           IN /\ calls' = calls \o
                    [k \in 1..made |->
                        Call(creates[k].op, <<PhaseOrder[phase_i], 0>>, creates[k].name, <<>>,
                             Created(ph, k, failing).ok, 0)]
              /\ Spend(failing # 0 /\ driver_name(plan) # "sqlite")
              /\ IF errs # {} THEN Return(Created(ph, made, failing))
                 ELSE IF ph.wait_for # <<>>
                 THEN GotoProbe("object_exists", 1, 0) /\ UNCHANGED result
                 ELSE StartSeedSets
    /\ UNCHANGED <<elsewhere, plan, run, reset, refs, in_transaction, db, txn, step_err, prev>>

(***************************************************************************)
(* wait_for_object, lines 93-145.                                          *)
(***************************************************************************)
CurWaitFor == CurPhase.wait_for[wf_i]
\* thread::sleep returns after the interval or later
SleepTimes == {poll_interval * k : k \in 1..(1 + MaxOversleep)}

\* lines 114-138: object_exists(type, name), then the deadline check
ObjectExists ==
    /\ pc = "object_exists"
    /\ \E fail \in MayFail, present \in BOOLEAN :
        LET wf == CurWaitFor
            timeout == timeout_dur(wf, CurPhase).v
            r == IF fail THEN Err(<<"checking existence">>)
                 ELSE object_exists(wf.obj_type, wf.name, present)
            what == on_probe(r, waited, timeout)
        IN /\ Spend(fail)
           /\ calls' = Append(calls, CallAt("object_exists", <<PhaseOrder[phase_i], 0>>,
                                            <<wf_i, 0>>, wf.name, <<>>, r.ok,
                                            IF r.ok /\ r.v THEN 1 ELSE 0))
           /\ CASE what = "error" ->
                    Return(Err(<<"error checking", wf.obj_type, wf.name, "sqlite", r.e>>))
                [] what = "found" ->
                    IF wf_i < Len(CurPhase.wait_for)
                    THEN GotoProbe("object_exists", wf_i + 1, 0) /\ UNCHANGED result
                    ELSE StartSeedSets
                [] what = "timeout" ->
                    Return(Err(<<"timeout after", format_duration(timeout),
                                 wf.obj_type, wf.name>>))
                [] what = "sleep" ->
                    GotoProbe("sleep", wf_i, waited) /\ UNCHANGED result
    /\ UNCHANGED <<elsewhere, plan, run, reset, refs, in_transaction, db, txn, step_err, prev>>

\* line 143: std::thread::sleep(poll_interval)
Sleep ==
    /\ pc = "sleep"
    /\ \E d \in SleepTimes : GotoProbe("object_exists", wf_i, waited + d)
    /\ UNCHANGED <<elsewhere, plan, run, reset, refs, in_transaction, db, txn, step_err,
                   result, calls, faults, prev>>

(***************************************************************************)
(* execute_seed_set, lines 147-187, one action per driver call.            *)
(***************************************************************************)
\* lines 151-162, reset mode: delete_rows(table)? for the tables sorted by
\* Reverse(order)
DeleteRows ==
    /\ pc = "delete_rows"
    /\ LET ts == CurSeedSet.tables[ResetTableOrder[table_i]]
           del == delete_rows(View, ts.table)
       IN \E fail \in MayFail :
           /\ Spend(fail)
           /\ calls' = Append(calls, CallAt("delete_rows", CurId,
                                            <<ResetTableOrder[table_i], 0>>, ts.table,
                                            <<>>, ~fail, IF fail THEN 0 ELSE del.count))
           /\ IF fail
              THEN Return(Err(<<"deleting rows", ts.table>>)) /\ UNCHANGED <<db, txn>>
              ELSE /\ Write(del.view)
                   /\ IF table_i < Len(CurSeedSet.tables)
                      THEN Goto("delete_rows", phase_i, ss_i, table_i + 1, 1)
                      ELSE Goto("remove_seed_mark", phase_i, ss_i, 1, 1)
                   /\ UNCHANGED result
    /\ UNCHANGED <<elsewhere, plan, run, reset, refs, in_transaction, step_err, prev>>

\* line 163, reset mode: remove_seed_mark(tracking_table, name)?
RemoveSeedMark ==
    /\ pc = "remove_seed_mark"
    /\ \E fail \in MayFail :
        /\ Spend(fail)
        /\ calls' = Append(calls, Call("remove_seed_mark", CurId, <<>>, <<>>, ~fail, 0))
        /\ IF fail
           THEN Return(Err(<<"removing seed mark">>)) /\ UNCHANGED <<db, txn>>
           ELSE /\ Write(remove_seed_mark(View, CurSeedSet.name))
                /\ Goto("is_seed_applied", phase_i, ss_i, 1, 1)
                /\ UNCHANGED result
    /\ UNCHANGED <<elsewhere, plan, run, reset, refs, in_transaction, step_err, prev>>

\* lines 166-170: is_seed_applied(tracking_table, name)?; when true the
\* seed set is skipped and execute_seed_set returns Ok
IsSeedApplied ==
    /\ pc = "is_seed_applied"
    /\ LET applied == is_seed_applied(View, CurSeedSet.name)
       IN \E fail \in MayFail :
           /\ Spend(fail)
           /\ calls' = Append(calls, Call("is_seed_applied", CurId, <<>>, <<>>, ~fail,
                                          IF ~fail /\ applied THEN 1 ELSE 0))
           /\ IF fail THEN Return(Err(<<"checking seed status">>))
              ELSE IF applied THEN SeedSetCompleted
              ELSE Goto("begin_transaction", phase_i, ss_i, 1, 1) /\ UNCHANGED result
    /\ UNCHANGED <<elsewhere, plan, run, reset, refs, in_transaction, db, txn, step_err, prev>>

\* the first row at or after row r of table t of the sorted tables of the
\* seed set: <<0, 0>> when every remaining table is out of rows
RECURSIVE NextRowPos(_, _, _, _)
NextRowPos(ss, order, t, r) ==
    IF t > Len(order) THEN <<0, 0>>
    ELSE IF r <= Len(ss.tables[order[t]].rows) THEN <<t, r>>
    ELSE NextRowPos(ss, order, t + 1, 1)

\* apply_seed_set_tables continues at row r of table t, or has returned Ok
ContinueAt(t, r) ==
    LET np == NextRowPos(CurSeedSet, ApplyTableOrder, t, r)
    IN IF np = <<0, 0>> THEN Goto("mark_seed_applied", phase_i, ss_i, 1, 1)
       ELSE Goto("apply_table_seed", phase_i, ss_i, np[1], np[2])

\* line 172: begin_transaction()?  sqlite refuses BEGIN inside a transaction
BeginTransaction ==
    /\ pc = "begin_transaction"
    /\ \E fail \in MayFail \cup {txn # None} :
        /\ Spend(fail /\ txn = None)
        /\ calls' = Append(calls, Call("begin_transaction", CurId, <<>>, <<>>, ~fail, 0))
        /\ IF fail
           THEN Return(Err(<<"beginning transaction">>)) /\ UNCHANGED <<db, txn, in_transaction>>
           ELSE /\ txn = None
                /\ SetConn(begin_transaction(Conn))
                /\ ContinueAt(1, 1)
                /\ UNCHANGED result
    /\ UNCHANGED <<elsewhere, plan, run, reset, refs, step_err, prev>>

\* apply_table_seed, lines 208-267, for one row: resolve the values, skip
\* the row when the unique key finds it, else insert it and capture _ref.
\* An Err goes to the Err(e) arm of execute_seed_set (line 182).
ApplyTableSeed ==
    /\ pc = "apply_table_seed"
    /\ LET ts == CurSeedSet.tables[ApplyTableOrder[table_i]]
           row == ts.rows[row_i]
           at == <<ApplyTableOrder[table_i], row_i>>
           ref_name == IF RefKey \in DOMAIN row /\ row[RefKey].k = "String"
                       THEN Some(row[RefKey].s) ELSE None
           columns == DOMAIN row \ {RefKey}
           resolved == [c \in columns |-> resolve_value(row[c], refs)]
           values == [c \in columns |-> resolved[c].v]
           unique == [c \in {k \in columns : \E i \in 1..Len(ts.unique_key) : ts.unique_key[i] = k}
                        |-> values[c]]
           checked == ts.unique_key # <<>>
           exists == checked /\ row_exists(View, ts.table, unique)
           ins == insert_row(View, ts.table, values)
           generated_id == Some(ins.id)
           CallExists(ok, found) ==
               CallAt("row_exists", CurId, at, ts.table, unique, ok, IF found THEN 1 ELSE 0)
           Checked(log) == IF checked THEN Append(log, CallExists(TRUE, FALSE)) ELSE log
           StepErr(e) ==
               /\ step_err' = Some(e)
               /\ pc' = "rollback_transaction"
               /\ UNCHANGED <<phase_i, ss_i, table_i, row_i, wf_i, waited, refs, db, txn>>
       IN \/ \E c \in columns :
                \* line 223: resolve_value(val)?
                /\ ~resolved[c].ok
                /\ calls' = Append(calls, CallAt("resolve_value", CurId, at, ts.table, <<>>, FALSE, 0))
                /\ StepErr(resolved[c].e)
                /\ UNCHANGED faults
          \/ \* lines 239-240: row_exists(...)? fails
             /\ \A c \in columns : resolved[c].ok
             /\ checked /\ DOMAIN unique # {} /\ faults > 0
             /\ calls' = Append(calls, CallExists(FALSE, FALSE))
             /\ StepErr(<<"checking row existence", ts.table>>)
             /\ Spend(TRUE)
          \/ \* lines 241-246: the row exists, continue with the next row
             /\ \A c \in columns : resolved[c].ok
             /\ exists
             /\ calls' = Append(calls, CallExists(TRUE, TRUE))
             /\ ContinueAt(table_i, row_i + 1)
             /\ UNCHANGED <<refs, db, txn, step_err, faults>>
          \/ \* line 250: insert_row(...)? fails
             /\ \A c \in columns : resolved[c].ok
             /\ ~exists /\ faults > 0
             /\ calls' = Append(Checked(calls), CallAt("insert_row", CurId, at, ts.table, values, FALSE, 0))
             /\ StepErr(<<"inserting row", ts.table>>)
             /\ Spend(TRUE)
          \/ \* lines 250-261: the row is inserted and registered under _ref
             /\ \A c \in columns : resolved[c].ok
             /\ ~exists
             /\ calls' = Append(Checked(calls), CallAt("insert_row", CurId, at, ts.table, values, TRUE, ins.id))
             /\ Write(ins.view)
             /\ refs' = IF ref_name # None
                        THEN refs_insert(refs, ref_name[1], ref_map(values, ts.auto_id, generated_id))
                        ELSE refs
             /\ ContinueAt(table_i, row_i + 1)
             /\ UNCHANGED <<step_err, faults>>
    /\ UNCHANGED <<elsewhere, plan, run, reset, in_transaction, result, prev>>

\* line 176, Ok arm: mark_seed_applied(tracking_table, name)?
MarkSeedApplied ==
    /\ pc = "mark_seed_applied"
    /\ \E fail \in MayFail :
        /\ Spend(fail)
        /\ calls' = Append(calls, Call("mark_seed_applied", CurId, <<>>, <<>>, ~fail, 0))
        /\ IF fail
           THEN Return(Err(<<"marking seed applied">>)) /\ UNCHANGED <<db, txn>>
           ELSE /\ Write(mark_seed_applied(View, CurSeedSet.name))
                /\ Goto("commit_transaction", phase_i, ss_i, 1, 1)
                /\ UNCHANGED result
    /\ UNCHANGED <<elsewhere, plan, run, reset, refs, in_transaction, step_err, prev>>

\* line 177, Ok arm: commit_transaction()?; SqliteDb::commit_transaction
\* issues COMMIT only when in_transaction is set
CommitTransaction ==
    /\ pc = "commit_transaction"
    /\ IF in_transaction
       THEN \E fail \in MayFail :
               /\ Spend(fail)
               /\ calls' = Append(calls, Call("commit_transaction", CurId, <<>>, <<>>, ~fail, 0))
               /\ IF fail
                  THEN /\ Return(Err(<<"committing transaction">>))
                       /\ UNCHANGED <<db, txn, in_transaction>>
                  ELSE /\ SetConn(commit_transaction(Conn))
                       /\ SeedSetCompleted
       ELSE /\ calls' = Append(calls, Call("commit_transaction", CurId, <<>>, <<>>, TRUE, 0))
            /\ SeedSetCompleted
            /\ UNCHANGED <<db, txn, in_transaction, faults>>
    /\ UNCHANGED <<elsewhere, plan, run, reset, refs, step_err, prev>>

\* lines 182-185, Err(e) arm: rollback_transaction()?, then
\* Err("seed set '{name}' failed: {e}")
RollbackTransaction ==
    /\ pc = "rollback_transaction"
    /\ IF in_transaction
       THEN \E fail \in MayFail :
               /\ Spend(fail)
               /\ calls' = Append(calls, Call("rollback_transaction", CurId, <<>>, <<>>, ~fail, 0))
               /\ IF fail
                  THEN /\ Return(Err(<<"rolling back transaction">>))
                       /\ UNCHANGED <<db, txn, in_transaction>>
                  ELSE /\ SetConn(rollback_transaction(Conn))
                       /\ Return(Err(<<"seed set failed", CurSeedSet.name, step_err[1]>>))
       ELSE /\ calls' = Append(calls, Call("rollback_transaction", CurId, <<>>, <<>>, TRUE, 0))
            /\ Return(Err(<<"seed set failed", CurSeedSet.name, step_err[1]>>))
            /\ UNCHANGED <<db, txn, in_transaction, faults>>
    /\ UNCHANGED <<elsewhere, plan, run, reset, refs, step_err, prev>>

\* the process is killed (SIGKILL) while execute runs: the connection is
\* gone and the database discards its open transaction
Crash ==
    /\ pc \in Running
    /\ pc' = "crashed"
    /\ txn' = None
    /\ in_transaction' = FALSE
    /\ UNCHANGED <<elsewhere, plan, run, reset, refs, db, phase_i, ss_i, table_i, row_i,
                   wf_i, waited, step_err, result, calls, faults, prev>>

Next ==
    \/ \E r \in BOOLEAN, fresh \in BOOLEAN : StartRun(r, fresh)
    \/ EnsureTrackingTable
    \/ ExecutePhase
    \/ ObjectExists
    \/ Sleep
    \/ DeleteRows
    \/ RemoveSeedMark
    \/ IsSeedApplied
    \/ BeginTransaction
    \/ ApplyTableSeed
    \/ MarkSeedApplied
    \/ CommitTransaction
    \/ RollbackTransaction
    \/ Crash

Spec == Init /\ [][Next]_vars

\* the executor is one thread that runs on until it returns or is killed:
\* inside wait_for_object the loop keeps taking its next turn
FairSpec == Spec /\ WF_vars(ObjectExists \/ Sleep)

(***************************************************************************)
(* The identifier sanitizer (seed/db.rs): every driver method builds its   *)
(* SQL text with sanitize_identifier(name) for the table, column,          *)
(* tracking-table, database and schema names.                              *)
(***************************************************************************)
\* the characters names are built from: letters, a digit, the underscore, a
\* letter outside ASCII and punctuation
NameChars == {"a", "Z", "7", "_", "é", "-", ";"}
Names == UNION {[1..k -> NameChars] : k \in 0..MaxNameLen}

SanitizerInit ==
    /\ ident \in Names
    /\ sql = None
    /\ plan = PlanDuplicates
    /\ pc = "init"
    /\ run = 0
    /\ reset = FALSE
    /\ refs = <<>>
    /\ in_transaction = FALSE
    /\ db = EmptyDb
    /\ txn = None
    /\ phase_i = 1 /\ ss_i = 1 /\ table_i = 1 /\ row_i = 1
    /\ wf_i = 1 /\ waited = 0
    /\ step_err = None
    /\ result = None
    /\ calls = <<>>
    /\ faults = MaxFaults
    /\ prev = [db |-> EmptyDb, outcome |-> "init", reset |-> FALSE, cut |-> NoId]
    /\ ProcessIdle
    /\ ClusterIdle
    /\ AuxiliaryIdle

\* format!("... {} ...", sanitize_identifier(name)) in a driver method
Interpolate ==
    /\ sql = None
    /\ sql' = Some(sanitize_identifier(ident))
    /\ UNCHANGED <<ident, seeder, process, cluster, auxiliary>>

SanitizerNext == Interpolate

SanitizerSpec == SanitizerInit /\ [][SanitizerNext]_vars

(***************************************************************************)
(* The initium process (main.rs) with the migrate and exec subcommands     *)
(* (cmd/migrate.rs, cmd/exec.rs, cmd/mod.rs) and the path guard            *)
(* (safety.rs).  A path is the sequence of its components; an absolute     *)
(* path starts with the root component "/".                                *)
(***************************************************************************)
\* safety.rs normalize_path: ".." pops a component, "." is dropped
RECURSIVE normalize_from(_, _)
normalize_from(path, components) ==
    IF path = <<>> THEN components
    ELSE IF Head(path) = ".."
    THEN normalize_from(Tail(path),
                        IF components # <<>>
                        THEN SubSeq(components, 1, Len(components) - 1)
                        ELSE components)
    ELSE IF Head(path) = "." THEN normalize_from(Tail(path), components)
    ELSE normalize_from(Tail(path), Append(components, Head(path)))
normalize_path(path) == normalize_from(path, <<>>)

is_absolute(path) == path # <<>> /\ Head(path) = "/"
\* the current directory of the process
current_dir == <<"/">>
\* PathBuf::join: an absolute argument replaces the base
join(base, path) == IF is_absolute(path) THEN path ELSE base \o path

validate_file_path(dir, target) ==
    IF dir = <<>> THEN Err(<<"workdir must not be empty">>)
    ELSE IF is_absolute(target) THEN Err(<<"absolute target path not allowed">>)
    ELSE LET abs_workdir == normalize_path(join(current_dir, dir))
             cleaned == normalize_path(join(abs_workdir, target))
         IN IF /\ cleaned # abs_workdir
               /\ ~(/\ Len(cleaned) > Len(abs_workdir)
                    /\ SubSeq(cleaned, 1, Len(abs_workdir)) = abs_workdir)
            THEN Err(<<"path traversal detected">>)
            ELSE Ok(cleaned)

\* (mutant) the lock file is not looked at
lock_found_never(path, exists) == FALSE

\* migrate.rs lines 8-14: lock_path.exists()
lock_found(path, exists) == path # <<>> /\ exists

\* (mutant) main exits 0 whatever the subcommand returned
exit_code_of_always_zero(r) == 0

\* main.rs lines 359-363: exit(1) on Err, falling off main on Ok
exit_code_of(r) == IF r.ok THEN 0 ELSE 1

Workdirs == {<<>>, <<"/", "work">>}
LockFiles == {<<>>, <<"lock">>, <<"..", "lock">>, <<"/", "tmp", "lock">>}
Clis ==
    [command : {"migrate", "exec"}, args_empty : BOOLEAN, sidecar_flag : BOOLEAN,
     sidecar_env : BOOLEAN]

MainInit ==
    /\ workdir \in Workdirs
    /\ lock_file \in LockFiles
    /\ lock_exists = FALSE
    /\ cli = NoCli
    /\ main_pc = "idle"
    /\ cmd_result = None
    /\ exit_status = None
    /\ error_logs = 0
    /\ events = <<>>
    /\ invocations = 0
    /\ ClusterIdle
    /\ AuxiliaryIdle
    /\ ident = <<>> /\ sql = None
    /\ plan = PlanDuplicates
    /\ pc = "init"
    /\ run = 0
    /\ reset = FALSE
    /\ refs = <<>>
    /\ in_transaction = FALSE
    /\ db = EmptyDb
    /\ txn = None
    /\ phase_i = 1 /\ ss_i = 1 /\ table_i = 1 /\ row_i = 1
    /\ wf_i = 1 /\ waited = 0
    /\ step_err = None
    /\ result = None
    /\ calls = <<>>
    /\ faults = MaxFaults
    /\ prev = [db |-> EmptyDb, outcome |-> "init", reset |-> FALSE, cut |-> NoId]

\* the subcommand returns r to main
Returned(r) ==
    /\ cmd_result' = Some(r)
    /\ main_pc' = "returned"

\* a process is started once the one before has exited
Start(c) ==
    /\ main_pc \in {"idle", "exited"}
    /\ invocations < MaxInvocations
    /\ invocations' = invocations + 1
    /\ cli' = c
    /\ main_pc' = "parse"
    /\ cmd_result' = None
    /\ exit_status' = None
    /\ error_logs' = 0
    /\ UNCHANGED <<workdir, lock_file, lock_exists, events, ident, sql, seeder, cluster, auxiliary>>

\* main.rs line 266, Cli::parse(): the Cli struct declares no --sidecar
\* argument, clap rejects an unknown argument with exit code 2
CliParse ==
    /\ main_pc = "parse"
    /\ IF cli.sidecar_flag
       THEN main_pc' = "exited" /\ exit_status' = Some(2)
       ELSE main_pc' = cli.command /\ UNCHANGED exit_status
    /\ UNCHANGED <<workdir, lock_file, lock_exists, cli, cmd_result, error_logs, events,
                   invocations, ident, sql, seeder, cluster, auxiliary>>

\* migrate.rs lines 4-15
MigrateRun ==
    /\ main_pc = "migrate"
    /\ IF cli.args_empty THEN Returned(Err(<<"migration command is required">>))
       ELSE IF lock_file # <<>> /\ ~validate_file_path(workdir, lock_file).ok
       THEN Returned(validate_file_path(workdir, lock_file))
       ELSE IF lock_found(lock_file, lock_exists) THEN Returned(Ok(<<>>))
       ELSE main_pc' = "run_command" /\ UNCHANGED cmd_result
    /\ events' = IF main_pc' = "returned" /\ cmd_result'[1].ok
                 THEN Append(events, <<"found", 0>>)
                 ELSE events
    /\ UNCHANGED <<workdir, lock_file, lock_exists, cli, exit_status, error_logs,
                   invocations, ident, sql, seeder, cluster, auxiliary>>

\* exec.rs lines 2-17, up to run_command_in_dir
ExecRun ==
    /\ main_pc = "exec"
    /\ IF cli.args_empty THEN Returned(Err(<<"command is required">>))
       ELSE main_pc' = "run_command" /\ UNCHANGED cmd_result
    /\ UNCHANGED <<workdir, lock_file, lock_exists, cli, exit_status, error_logs, events,
                   invocations, ident, sql, seeder, cluster, auxiliary>>

\* cmd/mod.rs run_command_in_dir and the exit-code check of its caller
\* (migrate.rs lines 16-19, exec.rs lines 12-15)
RunCommand ==
    /\ main_pc = "run_command"
    /\ \/ /\ Returned(Err(<<"starting command">>))
          /\ events' = IF cli.command = "migrate"
                       THEN Append(events, <<"spawn_error", 0>>)
                       ELSE events
       \/ \E exit_code \in {0, 1} :
            /\ events' = IF cli.command = "migrate"
                         THEN Append(events, <<"exit", exit_code>>)
                         ELSE events
            /\ IF exit_code # 0 THEN Returned(Err(<<"exited with code", exit_code>>))
               ELSE IF cli.command = "migrate" /\ lock_file # <<>>
               THEN main_pc' = "write_lock" /\ UNCHANGED cmd_result
               ELSE Returned(Ok(<<>>))
    /\ UNCHANGED <<workdir, lock_file, lock_exists, cli, exit_status, error_logs,
                   invocations, ident, sql, seeder, cluster, auxiliary>>

\* migrate.rs lines 20-25: create_dir_all and fs::write may fail
WriteLock ==
    /\ main_pc = "write_lock"
    /\ \E written \in BOOLEAN :
        /\ events' = Append(events, <<"write", IF written THEN 1 ELSE 0>>)
        /\ IF written
           THEN lock_exists' = TRUE /\ Returned(Ok(<<>>))
           ELSE UNCHANGED lock_exists /\ Returned(Err(<<"writing lock file">>))
    /\ UNCHANGED <<workdir, lock_file, cli, exit_status, error_logs, invocations, ident,
                   sql, seeder, cluster, auxiliary>>

\* main.rs lines 359-363
MainReturn ==
    /\ main_pc = "returned"
    /\ error_logs' = IF cmd_result[1].ok THEN error_logs ELSE error_logs + 1
    /\ exit_status' = Some(exit_code_of(cmd_result[1]))
    /\ main_pc' = "exited"
    /\ UNCHANGED <<workdir, lock_file, lock_exists, cli, cmd_result, events, invocations,
                   ident, sql, seeder, cluster, auxiliary>>

MainNext ==
    \/ \E c \in Clis : Start(c)
    \/ CliParse
    \/ MigrateRun
    \/ ExecRun
    \/ RunCommand
    \/ WriteLock
    \/ MainReturn

MainSpec == MainInit /\ [][MainNext]_vars

(***************************************************************************)
(* Two executors (two initium seed processes, each with its own            *)
(* connection) run execute on the same plan against one database server,   *)
(* reset = false.  Each follows execute_phases / execute_phase /            *)
(* execute_seed_set; a statement inside a transaction writes to the        *)
(* transaction's pending set, COMMIT publishes it (READ COMMITTED).  A     *)
(* row is written as <<executor, seed set, table, row>>.                   *)
(***************************************************************************)
Workers == {1, 2}
Other(w) == 3 - w
NoPending == [rows |-> {}, tracking |-> {}]

\* execute_phases and execute_phase: the seed sets in the order in which a
\* non-reset run reaches them
SeedSetIds(p, ph) ==
    [k \in 1..Len(p.phases[ph].seed_sets) |-> <<ph, sort_by_key(p.phases[ph].seed_sets)[k]>>]
RECURSIVE ExecutionFrom(_, _, _)
ExecutionFrom(p, order, k) ==
    IF k > Len(order) THEN <<>>
    ELSE SeedSetIds(p, order[k]) \o ExecutionFrom(p, order, k + 1)
ExecutionOrder(p) == ExecutionFrom(p, sort_by_key(p.phases), 1)

\* (mutant) COMMIT publishes the rows but not the tracking entry
pg_commit_rows_only(state, pending) == [state EXCEPT !.rows = @ \cup pending.rows]

\* COMMIT: the pending writes of the transaction become visible to all
pg_commit(state, pending) ==
    [rows |-> state.rows \cup pending.rows, tracking |-> state.tracking \cup pending.tracking]

WorkerStart(w) ==
    [pc |-> IF ExecutionOrder(plan) = <<>> THEN "done" ELSE "is_seed_applied",
     at |-> 1, table_i |-> 1, row_i |-> 1, pending |-> NoPending, faults |-> MaxFaults,
     late |-> {}, inserted |-> {}]

ClusterInit ==
    /\ plan = PlanTies
    /\ pg = [rows |-> {}, tracking |-> {}]
    /\ workers = [w \in Workers |-> WorkerStart(w)]
    /\ ProcessIdle
    /\ AuxiliaryIdle
    /\ ident = <<>> /\ sql = None
    /\ pc = "init"
    /\ run = 0
    /\ reset = FALSE
    /\ refs = <<>>
    /\ in_transaction = FALSE
    /\ db = EmptyDb
    /\ txn = None
    /\ phase_i = 1 /\ ss_i = 1 /\ table_i = 1 /\ row_i = 1
    /\ wf_i = 1 /\ waited = 0
    /\ step_err = None
    /\ result = None
    /\ calls = <<>>
    /\ faults = MaxFaults
    /\ prev = [db |-> EmptyDb, outcome |-> "init", reset |-> FALSE, cut |-> NoId]

WorkerId(w) == ExecutionOrder(plan)[workers[w].at]
WorkerSeedSet(w) == plan.phases[WorkerId(w)[1]].seed_sets[WorkerId(w)[2]]
WorkerTables(w) == sort_by_key(WorkerSeedSet(w).tables)
\* the seed sets the executor has committed
CommittedBy(w) == {x[2] : x \in {y \in pg.rows : y[1] = w}}

WorkerFail(w) == IF workers[w].faults > 0 THEN {FALSE, TRUE} ELSE {FALSE}
\* the call returned Err: execute returns it, the process exits and the
\* server rolls back what the connection left open
WorkerFailed(w) ==
    workers' = [workers EXCEPT ![w].pc = "failed", ![w].pending = NoPending,
                               ![w].faults = @ - 1]
\* execute_seed_set returned Ok
WorkerNext(w, rec) ==
    IF rec.at < Len(ExecutionOrder(plan))
    THEN [rec EXCEPT !.pc = "is_seed_applied", !.at = @ + 1, !.table_i = 1, !.row_i = 1]
    ELSE [rec EXCEPT !.pc = "done"]
\* apply_seed_set_tables continues at row r of table t, or has returned Ok
WorkerContinue(w, rec, t, r) ==
    LET np == NextRowPos(WorkerSeedSet(w), WorkerTables(w), t, r)
    IN IF np = <<0, 0>> THEN [rec EXCEPT !.pc = "mark_seed_applied"]
       ELSE [rec EXCEPT !.pc = "insert_row", !.table_i = np[1], !.row_i = np[2]]

\* lines 166-170: is_seed_applied reads the committed state, outside any
\* transaction
WorkerIsSeedApplied(w) ==
    /\ workers[w].pc = "is_seed_applied"
    /\ \E fail \in WorkerFail(w) :
        IF fail THEN WorkerFailed(w)
        ELSE LET rec == [workers[w] EXCEPT
                           !.late = IF WorkerId(w) \in CommittedBy(Other(w))
                                    THEN @ \cup {WorkerId(w)} ELSE @]
             IN workers' = [workers EXCEPT ![w] =
                    IF is_seed_applied(pg, WorkerSeedSet(w).name)
                    THEN WorkerNext(w, rec)
                    ELSE [rec EXCEPT !.pc = "begin_transaction"]]
    /\ UNCHANGED <<pg, ident, sql, process, seeder, auxiliary>>

\* line 172: BEGIN
WorkerBeginTransaction(w) ==
    /\ workers[w].pc = "begin_transaction"
    /\ \E fail \in WorkerFail(w) :
        IF fail THEN WorkerFailed(w)
        ELSE workers' = [workers EXCEPT ![w] =
                WorkerContinue(w, [workers[w] EXCEPT !.pending = NoPending], 1, 1)]
    /\ UNCHANGED <<pg, ident, sql, process, seeder, auxiliary>>

\* apply_table_seed, line 250, for a table without unique_key: insert_row
WorkerInsertRow(w) ==
    /\ workers[w].pc = "insert_row"
    /\ \E fail \in WorkerFail(w) :
        IF fail THEN WorkerFailed(w)
        ELSE LET rec == workers[w]
                 row == <<w, WorkerId(w), WorkerTables(w)[rec.table_i], rec.row_i>>
             IN workers' = [workers EXCEPT ![w] =
                    WorkerContinue(w, [rec EXCEPT !.pending.rows = @ \cup {row},
                                                  !.inserted = @ \cup {row}],
                                   rec.table_i, rec.row_i + 1)]
    /\ UNCHANGED <<pg, ident, sql, process, seeder, auxiliary>>

\* line 176: INSERT INTO tracking ... ON CONFLICT DO NOTHING; seed_set is
\* the primary key, so the statement waits while another transaction holds
\* an uncommitted entry for the same name
WorkerMarkSeedApplied(w) ==
    /\ workers[w].pc = "mark_seed_applied"
    /\ WorkerSeedSet(w).name \notin workers[Other(w)].pending.tracking
    /\ \E fail \in WorkerFail(w) :
        IF fail THEN WorkerFailed(w)
        ELSE workers' = [workers EXCEPT
                ![w].pc = "commit_transaction",
                ![w].pending.tracking =
                    IF WorkerSeedSet(w).name \in pg.tracking THEN @
                    ELSE @ \cup {WorkerSeedSet(w).name}]
    /\ UNCHANGED <<pg, ident, sql, process, seeder, auxiliary>>

\* line 177: COMMIT
WorkerCommitTransaction(w) ==
    /\ workers[w].pc = "commit_transaction"
    /\ \E fail \in WorkerFail(w) :
        IF fail THEN WorkerFailed(w) /\ UNCHANGED pg
        ELSE /\ pg' = pg_commit(pg, workers[w].pending)
             /\ workers' = [workers EXCEPT ![w] =
                    WorkerNext(w, [workers[w] EXCEPT !.pending = NoPending])]
    /\ UNCHANGED <<ident, sql, process, seeder, auxiliary>>

ClusterNext ==
    \E w \in Workers :
        \/ WorkerIsSeedApplied(w)
        \/ WorkerBeginTransaction(w)
        \/ WorkerInsertRow(w)
        \/ WorkerMarkSeedApplied(w)
        \/ WorkerCommitTransaction(w)

ClusterSpec == ClusterInit /\ [][ClusterNext]_vars

(***************************************************************************)
(* The Database trait driven directly (seed/db.rs and its tests): a caller *)
(* invokes the transaction methods, the tracking-table methods and         *)
(* insert_row on one connection in any order, and the database may fail    *)
(* the statement a method issues.  The val of a transaction call is 1      *)
(* when it issued its statement.                                           *)
(***************************************************************************)
DriverSeedSets == <<n_s1, n_s2>>

DriverInit ==
    /\ plan = PlanDuplicates
    /\ run = 0
    /\ reset = FALSE
    /\ refs = <<>>
    /\ in_transaction = FALSE
    /\ db = EmptyDb
    /\ txn = None
    /\ pc = "driver"
    /\ phase_i = 1 /\ ss_i = 1 /\ table_i = 1 /\ row_i = 1
    /\ wf_i = 1 /\ waited = 0
    /\ step_err = None
    /\ result = None
    /\ calls = <<>>
    /\ faults = 0
    /\ prev = [db |-> EmptyDb, outcome |-> "init", reset |-> FALSE, cut |-> NoId]
    /\ ident = <<>> /\ sql = None
    /\ ProcessIdle
    /\ ClusterIdle
    /\ AuxiliaryIdle

\* what a driver call leaves alone besides the connection and the calls
DriverFrame ==
    UNCHANGED <<elsewhere, plan, run, reset, refs, pc, phase_i, ss_i, table_i, row_i,
                wf_i, waited, step_err, result, faults, prev>>
DriverCalled(call) ==
    /\ pc = "driver"
    /\ Len(calls) < MaxDriverCalls
    /\ calls' = Append(calls, call)
    /\ DriverFrame

\* begin_transaction: BEGIN, then the flag.  Inside a transaction sqlite
\* refuses the statement, postgres warns and carries on
DriverBegin(fail) ==
    /\ DriverCalled(Call("begin_transaction", NoId, <<>>, <<>>, ~fail, 1))
    /\ IF fail THEN UNCHANGED <<db, txn, in_transaction>>
       ELSE IF txn = None THEN SetConn(begin_transaction(Conn))
       ELSE in_transaction' = TRUE /\ UNCHANGED <<db, txn>>

DriverCommit(fail) ==
    /\ fail => in_transaction
    /\ DriverCalled(Call("commit_transaction", NoId, <<>>, <<>>, ~fail,
                         IF in_transaction THEN 1 ELSE 0))
    /\ IF fail THEN UNCHANGED <<db, txn, in_transaction>>
       ELSE SetConn(commit_transaction(Conn))

DriverRollback(fail) ==
    /\ fail => in_transaction
    /\ DriverCalled(Call("rollback_transaction", NoId, <<>>, <<>>, ~fail,
                         IF in_transaction THEN 1 ELSE 0))
    /\ IF fail THEN UNCHANGED <<db, txn, in_transaction>>
       ELSE SetConn(rollback_transaction(Conn))

\* an inner operation
DriverInsertRow(fail) ==
    /\ DriverCalled(Call("insert_row", NoId, dept, NameRow(v_Eng), ~fail, 0))
    /\ IF fail THEN UNCHANGED <<db, txn>>
       ELSE Write(insert_row(View, dept, [c \in {c_name} |-> v_Eng]).view)
    /\ UNCHANGED in_transaction

DriverMarkSeedApplied(k) ==
    /\ DriverCalled(Call("mark_seed_applied", <<1, k>>, <<>>, <<>>, TRUE, 0))
    /\ Write(mark_seed_applied(View, DriverSeedSets[k]))
    /\ UNCHANGED in_transaction

DriverRemoveSeedMark(k) ==
    /\ DriverCalled(Call("remove_seed_mark", <<1, k>>, <<>>, <<>>, TRUE, 0))
    /\ Write(remove_seed_mark(View, DriverSeedSets[k]))
    /\ UNCHANGED in_transaction

DriverNext ==
    \/ \E fail \in BOOLEAN : DriverBegin(fail)
    \/ \E fail \in BOOLEAN : DriverCommit(fail)
    \/ \E fail \in BOOLEAN : DriverRollback(fail)
    \/ \E fail \in BOOLEAN : DriverInsertRow(fail)
    \/ \E k \in DOMAIN DriverSeedSets : DriverMarkSeedApplied(k)
    \/ \E k \in DOMAIN DriverSeedSets : DriverRemoveSeedMark(k)

DriverSpec == DriverInit /\ [][DriverNext]_vars

(***************************************************************************)
(* retry.rs: do_retry calls f up to max_attempts times with a backoff      *)
(* delay between the calls and gives up early when the next delay would    *)
(* end after the deadline.  Durations are whole time units; the random     *)
(* sample of the jitter is 0 or one half.                                  *)
(***************************************************************************)
RECURSIVE powi(_, _)
powi(b, e) == IF e = 0 THEN 1 ELSE b * powi(b, e - 1)
Min(a, b) == IF a <= b THEN a ELSE b

\* Config::validate
config_validate(cfg) ==
    IF cfg.max_attempts < 1 THEN Err(<<"max-attempts must be >= 1">>)
    ELSE IF cfg.initial_delay = 0 THEN Err(<<"initial-delay must be > 0">>)
    ELSE IF cfg.max_delay < cfg.initial_delay THEN Err(<<"max-delay must be >= initial-delay">>)
    ELSE IF cfg.backoff_factor < 1 THEN Err(<<"backoff-factor must be >= 1.0">>)
    ELSE IF cfg.jitter_fraction \notin 0..1 THEN Err(<<"jitter-fraction must be in [0, 1]">>)
    ELSE Ok(<<>>)

\* delay(cfg, attempt) when rand::random() returned twice_random / 2
delay(cfg, n, twice_random) ==
    LET base == cfg.initial_delay * powi(cfg.backoff_factor, n)
        capped == Min(base, cfg.max_delay)
        jitter == IF cfg.jitter_fraction > 0
                  THEN (capped * cfg.jitter_fraction * twice_random) \div 2
                  ELSE 0
    IN capped + jitter

\* (mutant) the last attempt is not recognised
last_attempt_never(cfg, n) == FALSE

\* line 68: attempt == cfg.max_attempts - 1
last_attempt(cfg, n) == n = cfg.max_attempts - 1

\* (mutant) the deadline is compared with the clock alone
past_deadline_without_delay(dl, t, d) == dl # None /\ t > dl[1]

\* lines 78-79: Instant::now() + d > dl
past_deadline(dl, t, d) == dl # None /\ t + d > dl[1]

\* the configurations main hands to do_retry: those that validate
RetryConfigs ==
    {cfg \in [max_attempts : 0..MaxAttempts, initial_delay : 0..2, max_delay : {1, 4},
              backoff_factor : 1..2, jitter_fraction : 0..1] : config_validate(cfg).ok}

RetryInit ==
    /\ retry_cfg \in RetryConfigs
    /\ deadline \in {None} \cup {Some(t) : t \in 0..MaxDeadline}
    /\ now = 0
    /\ attempt = 0
    /\ retry_pc = "call"
    /\ retry_trace = <<>>
    /\ retry_result = None
    /\ plan = PlanDuplicates
    /\ run = 0
    /\ reset = FALSE
    /\ refs = <<>>
    /\ in_transaction = FALSE
    /\ db = EmptyDb
    /\ txn = None
    /\ pc = "init"
    /\ phase_i = 1 /\ ss_i = 1 /\ table_i = 1 /\ row_i = 1
    /\ wf_i = 1 /\ waited = 0
    /\ step_err = None
    /\ result = None
    /\ calls = <<>>
    /\ faults = 0
    /\ prev = [db |-> EmptyDb, outcome |-> "init", reset |-> FALSE, cut |-> NoId]
    /\ ident = <<>> /\ sql = None
    /\ ProcessIdle
    /\ ClusterIdle
    /\ LoggerIdle
    /\ CommandIdle

RetryResult(n, err) == [attempt |-> n, err |-> err]
RetryReturn(r) ==
    /\ retry_pc' = "returned"
    /\ retry_result' = Some(r)
    /\ UNCHANGED attempt

\* lines 64-76: the loop head and the call of f, which takes took time
\* units and returns Ok or Err
CallF(ok, took) ==
    /\ retry_pc = "call"
    /\ now' = now + took
    /\ IF attempt >= retry_cfg.max_attempts
       THEN /\ took = 0 /\ ok
            /\ RetryReturn(RetryResult(0, Some(<<"max attempts reached">>)))
            /\ UNCHANGED retry_trace
       ELSE /\ retry_trace' = Append(retry_trace,
                                     [ev |-> "f", n |-> attempt, ok |-> ok, at |-> now, d |-> 0])
            /\ IF ok THEN RetryReturn(RetryResult(attempt, None))
               ELSE IF last_attempt(retry_cfg, attempt)
               THEN RetryReturn(RetryResult(attempt,
                        Some(<<"all attempts failed", retry_cfg.max_attempts>>)))
               ELSE retry_pc' = "delay" /\ UNCHANGED <<attempt, retry_result>>
    /\ UNCHANGED <<retry_cfg, deadline, seeder, ident, sql, process, cluster, logging,
                   command>>

\* lines 77-86: the delay, the deadline check and the sleep, which may
\* last longer than asked
Backoff(twice_random, oversleep) ==
    /\ retry_pc = "delay"
    /\ LET d == delay(retry_cfg, attempt, twice_random)
           computed == [ev |-> "delay", n |-> attempt, ok |-> TRUE, at |-> now, d |-> d]
       IN IF past_deadline(deadline, now, d)
          THEN /\ oversleep = 0
               /\ retry_trace' = Append(retry_trace, computed)
               /\ RetryReturn(RetryResult(attempt, Some(<<"deadline exceeded", attempt + 1>>)))
               /\ UNCHANGED now
          ELSE /\ retry_trace' = retry_trace \o
                    <<computed, [ev |-> "sleep", n |-> attempt, ok |-> TRUE, at |-> now, d |-> d]>>
               /\ now' = now + d + oversleep
               /\ attempt' = attempt + 1
               /\ retry_pc' = "call"
               /\ UNCHANGED retry_result
    /\ UNCHANGED <<retry_cfg, deadline, seeder, ident, sql, process, cluster, logging,
                   command>>

RetryNext ==
    \/ \E ok \in BOOLEAN, took \in 0..1 : CallF(ok, took)
    \/ \E twice_random \in 0..1, oversleep \in 0..MaxOversleep : Backoff(twice_random, oversleep)

RetrySpec == RetryInit /\ [][RetryNext]_vars

(***************************************************************************)
(* logging.rs: the threads that share one Logger (the two stream threads   *)
(* of run_command_in_dir) each log MaxLines lines while set_json may be    *)
(* called.  writeln! hands the line to the output in two write calls, the  *)
(* text and the line end.                                                  *)
(***************************************************************************)
LogThreads == {1, 2}

\* (mutant) the lock is handed out while another thread holds it
mutex_free_always(holder) == TRUE

\* Mutex::lock returns once no other thread holds the mutex
mutex_free(holder) == holder = 0

\* the write calls of one writeln!: the text in the format chosen, then the
\* line end
line_parts == 2

LoggerInit ==
    /\ log_out = <<>>
    /\ out_lock = 0
    /\ json_mode \in BOOLEAN
    /\ loggers = [t \in LogThreads |-> [pc |-> "return", json |-> FALSE, line |-> 0, part |-> 0]]
    /\ toggles = 0
    /\ RetryIdle
    /\ CommandIdle
    /\ plan = PlanDuplicates
    /\ run = 0
    /\ reset = FALSE
    /\ refs = <<>>
    /\ in_transaction = FALSE
    /\ db = EmptyDb
    /\ txn = None
    /\ pc = "init"
    /\ phase_i = 1 /\ ss_i = 1 /\ table_i = 1 /\ row_i = 1
    /\ wf_i = 1 /\ waited = 0
    /\ step_err = None
    /\ result = None
    /\ calls = <<>>
    /\ faults = 0
    /\ prev = [db |-> EmptyDb, outcome |-> "init", reset |-> FALSE, cut |-> NoId]
    /\ ident = <<>> /\ sql = None
    /\ ProcessIdle
    /\ ClusterIdle

LoggerFrame == UNCHANGED <<seeder, ident, sql, process, cluster, retrier, command>>

\* Logger::set_json
SetJson(enabled) ==
    /\ toggles < MaxToggles
    /\ toggles' = toggles + 1
    /\ json_mode' = enabled
    /\ UNCHANGED <<log_out, out_lock, loggers>>
    /\ LoggerFrame

\* thread t calls log.info: lines 80-84, the level passes and the toggle is
\* copied under its own lock
LogReadJsonMode(t) ==
    /\ loggers[t].pc = "return"
    /\ loggers[t].line < MaxLines
    /\ loggers' = [loggers EXCEPT ![t] = [pc |-> "lock_out", json |-> json_mode,
                                          line |-> @.line + 1, part |-> 0]]
    /\ UNCHANGED <<log_out, out_lock, json_mode, toggles>>
    /\ LoggerFrame

\* line 85: self.out.lock()
LogLockOut(t) ==
    /\ loggers[t].pc = "lock_out"
    /\ mutex_free(out_lock)
    /\ out_lock' = t
    /\ loggers' = [loggers EXCEPT ![t].pc = "writeln"]
    /\ UNCHANGED <<log_out, json_mode, toggles>>
    /\ LoggerFrame

\* lines 87-102: writeln! in the format of the copied toggle, one write call
\* at a time
LogWrite(t) ==
    /\ loggers[t].pc = "writeln"
    /\ log_out' = Append(log_out, [thread |-> t, line |-> loggers[t].line,
                                     part |-> loggers[t].part + 1, json |-> loggers[t].json])
    /\ loggers' = [loggers EXCEPT ![t].part = @ + 1,
                                  ![t].pc = IF loggers[t].part + 1 = line_parts
                                            THEN "unlock" ELSE "writeln"]
    /\ UNCHANGED <<out_lock, json_mode, toggles>>
    /\ LoggerFrame

\* line 103: the guard of out is dropped
LogUnlock(t) ==
    /\ loggers[t].pc = "unlock"
    /\ out_lock' = IF out_lock = t THEN 0 ELSE out_lock
    /\ loggers' = [loggers EXCEPT ![t].pc = "return"]
    /\ UNCHANGED <<log_out, json_mode, toggles>>
    /\ LoggerFrame

LoggerNext ==
    \/ \E enabled \in BOOLEAN : SetJson(enabled)
    \/ \E t \in LogThreads : LogReadJsonMode(t)
    \/ \E t \in LogThreads : LogLockOut(t)
    \/ \E t \in LogThreads : LogWrite(t)
    \/ \E t \in LogThreads : LogUnlock(t)

LoggerSpec == LoggerInit /\ [][LoggerNext]_vars

(***************************************************************************)
(* cmd/mod.rs: run_command_in_dir spawns the command with both outputs     *)
(* piped, reads each pipe in a thread of its own, joins the two threads    *)
(* and waits for the child.  The child writes its lines to the two pipes   *)
(* in any interleaving and blocks on a full pipe; a line is a number and   *)
(* whether its bytes are valid UTF-8.                                      *)
(***************************************************************************)
Streams == {"stdout", "stderr"}

\* what the child writes to one stream: line k is valid UTF-8 or not
Scripts == UNION {[1..n -> BOOLEAN] : n \in 0..MaxChildLines}
ChildLine(script, k) == [id |-> k, utf8 |-> script[k]]

\* BufRead::lines: the next line, or Err when its bytes are not UTF-8
lines_next(line) ==
    IF line.utf8 THEN Ok(line.id) ELSE Err(<<"stream did not contain valid UTF-8">>)

CommandInit ==
    /\ \E out \in Scripts, err \in Scripts :
          child = [script |-> [s \in Streams |-> IF s = "stdout" THEN out ELSE err],
                   written |-> [s \in Streams |-> 0],
                   state |-> "running", code |-> 0]
    /\ pipes = [s \in Streams |-> [buf |-> <<>>, writer_open |-> TRUE, reader_open |-> TRUE]]
    /\ readers = [s \in Streams |-> "lines"]
    /\ logged = <<>>
    /\ command_pc = "scope"
    /\ command_code = None
    /\ RetryIdle
    /\ LoggerIdle
    /\ plan = PlanDuplicates
    /\ run = 0
    /\ reset = FALSE
    /\ refs = <<>>
    /\ in_transaction = FALSE
    /\ db = EmptyDb
    /\ txn = None
    /\ pc = "init"
    /\ phase_i = 1 /\ ss_i = 1 /\ table_i = 1 /\ row_i = 1
    /\ wf_i = 1 /\ waited = 0
    /\ step_err = None
    /\ result = None
    /\ calls = <<>>
    /\ faults = 0
    /\ prev = [db |-> EmptyDb, outcome |-> "init", reset |-> FALSE, cut |-> NoId]
    /\ ident = <<>> /\ sql = None
    /\ ProcessIdle
    /\ ClusterIdle

CommandFrame == UNCHANGED <<seeder, ident, sql, process, cluster, retrier, logging>>
ClosedWriters == [s \in Streams |-> [pipes[s] EXCEPT !.writer_open = FALSE]]

\* the child writes its next line to stream s: it goes into the pipe when
\* there is room, and kills the child (SIGPIPE) when the read end is closed
ChildWrite(s) ==
    /\ child.state = "running"
    /\ child.written[s] < Len(child.script[s])
    /\ IF pipes[s].reader_open
       THEN /\ Len(pipes[s].buf) < PipeCapacity
            /\ pipes' = [pipes EXCEPT ![s].buf =
                            Append(@, ChildLine(child.script[s], child.written[s] + 1))]
            /\ child' = [child EXCEPT !.written[s] = @ + 1]
       ELSE /\ pipes' = ClosedWriters
            /\ child' = [child EXCEPT !.state = "exited", !.code = -1]
    /\ UNCHANGED <<readers, logged, command_pc, command_code>>
    /\ CommandFrame

\* the child has written everything and exits with a code of its choice
ChildExit(code) ==
    /\ child.state = "running"
    /\ \A s \in Streams : child.written[s] = Len(child.script[s])
    /\ pipes' = ClosedWriters
    /\ child' = [child EXCEPT !.state = "exited", !.code = code]
    /\ UNCHANGED <<readers, logged, command_pc, command_code>>
    /\ CommandFrame

\* stream_lines on stream s: the next item of buf.lines(): a line is
\* logged, an Err ends map_while; the reader is dropped on return
StreamLine(s) ==
    /\ readers[s] = "lines"
    /\ pipes[s].buf # <<>>
    /\ LET item == lines_next(Head(pipes[s].buf))
       IN IF item.ok
          THEN /\ logged' = Append(logged, [stream |-> s, line |-> item.v])
               /\ pipes' = [pipes EXCEPT ![s].buf = Tail(@)]
               /\ UNCHANGED readers
          ELSE /\ readers' = [readers EXCEPT ![s] = "returned"]
               /\ pipes' = [pipes EXCEPT ![s].buf = Tail(@), ![s].reader_open = FALSE]
               /\ UNCHANGED logged
    /\ UNCHANGED <<child, command_pc, command_code>>
    /\ CommandFrame

\* stream_lines on stream s: end of stream
StreamEnd(s) ==
    /\ readers[s] = "lines"
    /\ pipes[s].buf = <<>>
    /\ ~pipes[s].writer_open
    /\ readers' = [readers EXCEPT ![s] = "returned"]
    /\ pipes' = [pipes EXCEPT ![s].reader_open = FALSE]
    /\ UNCHANGED <<child, logged, command_pc, command_code>>
    /\ CommandFrame

\* lines 38-40: h1.join(), h2.join() and the end of the scope
JoinReaders ==
    /\ command_pc = "scope"
    /\ \A s \in Streams : readers[s] = "returned"
    /\ command_pc' = "wait"
    /\ UNCHANGED <<child, pipes, readers, logged, command_code>>
    /\ CommandFrame

\* lines 41-44: child.wait() and status.code().unwrap_or(-1)
WaitChild ==
    /\ command_pc = "wait"
    /\ child.state = "exited"
    /\ command_pc' = "returned"
    /\ command_code' = Some(child.code)
    /\ UNCHANGED <<child, pipes, readers, logged>>
    /\ CommandFrame

CommandNext ==
    \/ \E s \in Streams : ChildWrite(s)
    \/ \E code \in 0..1 : ChildExit(code)
    \/ \E s \in Streams : StreamLine(s)
    \/ \E s \in Streams : StreamEnd(s)
    \/ JoinReaders
    \/ WaitChild

CommandSpec == CommandInit /\ [][CommandNext]_vars

\* history of the migrate invocations: positions of an event in events
EventsAt(e) == {i \in 1..Len(events) : events[i] = e}
ZeroExits == Cardinality(EventsAt(<<"exit", 0>>))
FailedWrites == Cardinality(EventsAt(<<"write", 0>>))
Spawns == {i \in 1..Len(events) : events[i][1] \in {"exit", "spawn_error"}}

C17_History ==
    lock_file # <<>> =>
        \* no spawn once the lock file has been written
        /\ \A i \in EventsAt(<<"write", 1>>) : \A j \in Spawns : j < i
        \* the lock file is written only after the command exited with 0
        /\ \A i \in 1..Len(events) :
              events[i][1] = "write" => i > 1 /\ events[i - 1] = <<"exit", 0>>
        /\ lock_exists <=> EventsAt(<<"write", 1>>) # {}
        \* a lock file is found only if it has been written
        /\ \A i \in EventsAt(<<"found", 0>>) : \E j \in EventsAt(<<"write", 1>>) : j < i
        \* one more zero exit per failed write of the lock file
        /\ ZeroExits <= 1 + FailedWrites

\* an invocation that finds the lock file returns success without spawning
C17_FoundStep ==
    (main_pc = "migrate" /\ ~cli.args_empty /\ lock_file # <<>> /\ lock_exists)
        => /\ main_pc' = "returned"
           /\ cmd_result' = Some(Ok(<<>>))
           /\ Spawns' = Spawns

LoaderInit ==
    /\ plan \in LoadedPlans
    /\ pc = "from_yaml"
    /\ run = 0
    /\ reset = FALSE
    /\ refs = <<>>
    /\ in_transaction = FALSE
    /\ db = EmptyDb
    /\ txn = None
    /\ phase_i = 1 /\ ss_i = 1 /\ table_i = 1 /\ row_i = 1
    /\ wf_i = 1 /\ waited = 0
    /\ step_err = None
    /\ result = None
    /\ calls = <<>>
    /\ faults = MaxFaults
    /\ prev = [db |-> EmptyDb, outcome |-> "init", reset |-> FALSE, cut |-> NoId]
    /\ ident = <<>> /\ sql = None
    /\ ProcessIdle
    /\ ClusterIdle
    /\ AuxiliaryIdle

\* SeedPlan::from_yaml / from_json: validate()? after the parse
FromYaml ==
    /\ pc = "from_yaml"
    /\ LET r == validate(plan)
       IN /\ pc' = IF r.ok THEN "init" ELSE "rejected"
          /\ result' = IF r.ok THEN None ELSE Some(r)
    /\ UNCHANGED <<elsewhere, plan, run, reset, refs, in_transaction, db, txn, phase_i, ss_i,
                   table_i, row_i, wf_i, waited, step_err, calls, faults, prev>>

LoaderNext ==
    \/ FromYaml
    \/ \E r \in BOOLEAN : StartRun(r, TRUE)

LoaderSpec == LoaderInit /\ [][LoaderNext]_vars

(***************************************************************************)
(* Properties.                                                             *)
(***************************************************************************)
Calls == 1..Len(calls)
SeedSetAt(id) == plan.phases[id[1]].seed_sets[id[2]]
Sanitized(values) ==
    [sc \in {sanitize_identifier(c) : c \in DOMAIN values} |->
        values[CHOOSE c \in DOMAIN values : sanitize_identifier(c) = sc]]
\* the row that the successful insert_row call i created is in view
Holds(view, i) ==
    \E r \in view.tables[sanitize_identifier(calls[i].table)] :
        r.rowid = calls[i].val /\ r.cols = Sanitized(calls[i].values)
Inserted(i) == calls[i].op = "insert_row" /\ calls[i].ok

\* the current execute is the second of two non-reset executes, the first
\* of which started on the fresh database and returned Ok
SecondRunOfFresh ==
    /\ run = 2
    /\ pc # "init"
    /\ ~reset
    /\ ~prev.reset
    /\ prev.outcome = "done"

\* C1: running execute (reset = false) a second time after a successful
\* first run on a fresh database changes nothing: the second run calls
\* neither insert_row nor delete_rows nor mark_seed_applied, and the rows
\* and the tracking entries stay those the first run left.
C1_SecondRunChangesNothing ==
    SecondRunOfFresh =>
        /\ db = prev.db
        /\ txn = None
        /\ \A i \in Calls :
            calls[i].op \notin {"insert_row", "delete_rows", "mark_seed_applied",
                                "remove_seed_mark"}

C1_Witness ==
    /\ SecondRunOfFresh
    /\ pc = "done"
    /\ db.tracking # {}
    /\ \E t \in Tables : db.tables[t] # {}

\* C2: when a table-seed step of a seed set fails after its
\* begin_transaction (resolution, row_exists or insert_row), then at the
\* return of execute the committed tracking table does not hold the seed
\* set's name and the committed tables hold none of the rows the seed set
\* inserted during this run.
C2_FailedSeedSetLeavesNothing ==
    (pc = "failed" /\ step_err # None) =>
        /\ CurSeedSet.name \notin db.tracking
        /\ \A i \in Calls : (Inserted(i) /\ calls[i].ss = CurId) => ~Holds(db, i)

C2_Witness ==
    /\ pc = "failed"
    /\ step_err # None
    /\ \E i \in Calls : Inserted(i) /\ calls[i].ss = CurId

TableSeeds ==
    UNION {UNION {{<<p, q, t>> : t \in 1..Len(plan.phases[p].seed_sets[q].tables)} :
                    q \in 1..Len(plan.phases[p].seed_sets)} :
             p \in 1..Len(plan.phases)}
TableSeedAt(x) == plan.phases[x[1]].seed_sets[x[2]].tables[x[3]]
KeySet(ts) == {ts.unique_key[i] : i \in 1..Len(ts.unique_key)}
\* the rows of ts that declare every column of its unique key
FullRows(ts) == {n \in 1..Len(ts.rows) : KeySet(ts) \subseteq DOMAIN ts.rows[n]}
KeyTuple(ts, n) == [c \in KeySet(ts) |-> resolve_value(ts.rows[n][c], refs).v]
Matching(view, ts, n) ==
    {r \in view.tables[sanitize_identifier(ts.table)] :
        \A c \in KeySet(ts) :
            /\ sanitize_identifier(c) \in DOMAIN r.cols
            /\ r.cols[sanitize_identifier(c)] = KeyTuple(ts, n)[c]}
\* every table seed that targets the table of ts declares the unique key of ts
SoleKey(ts) ==
    \A x \in TableSeeds :
        sanitize_identifier(TableSeedAt(x).table) = sanitize_identifier(ts.table)
            => KeySet(TableSeedAt(x)) = KeySet(ts)

\* C4 as stated: after a successful execute every key tuple declared under
\* a non-empty unique_key is matched by exactly one row of its table.
C4_OneRowPerKeyTuple ==
    pc = "done" =>
        \A x \in TableSeeds :
            TableSeedAt(x).unique_key # <<>> =>
                \A n \in FullRows(TableSeedAt(x)) :
                    Cardinality(Matching(db, TableSeedAt(x), n)) = 1

\* C4 (amended): after a successful non-reset execute on a fresh database
\* every fully declared key tuple of a table seed with a non-empty
\* unique_key is matched by exactly one row, however many rows declare it,
\* provided every table seed that targets the same table declares the same
\* unique_key.
C4_OneRowPerKeyTupleSoleKey ==
    (pc = "done" /\ run = 1 /\ ~reset) =>
        \A x \in TableSeeds :
            (TableSeedAt(x).unique_key # <<>> /\ SoleKey(TableSeedAt(x))) =>
                \A n \in FullRows(TableSeedAt(x)) :
                    Cardinality(Matching(db, TableSeedAt(x), n)) = 1

C4_Witness ==
    /\ pc = "done" /\ run = 1 /\ ~reset
    /\ \E x \in TableSeeds :
        /\ TableSeedAt(x).unique_key # <<>>
        /\ SoleKey(TableSeedAt(x))
        /\ \E n, m \in FullRows(TableSeedAt(x)) :
            /\ n # m
            /\ KeyTuple(TableSeedAt(x), n) = KeyTuple(TableSeedAt(x), m)
            /\ Cardinality(Matching(db, TableSeedAt(x), n)) = 1

\* the plan row and the table seed an insert_row call was made for
RowOfCall(i) == SeedSetAt(calls[i].ss).tables[calls[i].at[1]].rows[calls[i].at[2]]
TableSeedOfCall(i) == SeedSetAt(calls[i].ss).tables[calls[i].at[1]]
IsRef(v) ==
    /\ v.k = "String"
    /\ StartsWith(v.s, RefPrefix)
    /\ FindFrom(StripPrefix(v.s, RefPrefix), ".", 1) > 0
RefName(v) ==
    LET e == StripPrefix(v.s, RefPrefix) IN SubSeq(e, 1, FindFrom(e, ".", 1) - 1)
RefColumn(v) ==
    LET e == StripPrefix(v.s, RefPrefix) IN SubSeq(e, FindFrom(e, ".", 1) + 1, Len(e))
\* call j inserted a row that carries _ref: name
Registers(j, name) ==
    /\ Inserted(j)
    /\ RefKey \in DOMAIN RowOfCall(j)
    /\ RowOfCall(j)[RefKey] = String(name)
LastRegistered(i, name) ==
    CHOOSE j \in 1..(i - 1) :
        Registers(j, name) /\ \A k \in (j + 1)..(i - 1) : ~Registers(k, name)
\* what the row inserted by call j holds for column col: the id insert_row
\* returned for the auto_id column, the value submitted otherwise
RegisteredValue(j, col) ==
    IF TableSeedOfCall(j).auto_id # None /\ TableSeedOfCall(j).auto_id[1].column = col
    THEN ToDecimal(calls[j].val)
    ELSE calls[j].values[col]

\* C5: the value passed to insert_row for a column declared as @ref:N.c is
\* the value of column c of the row last registered under _ref N: the id
\* insert_row generated for that row when c is the auto_id column of its
\* table, the value submitted for c otherwise.
C5_ReferenceValue ==
    \A i \in Calls :
        calls[i].op = "insert_row" =>
            \A c \in DOMAIN calls[i].values :
                IsRef(RowOfCall(i)[c]) =>
                    /\ \E j \in 1..(i - 1) : Registers(j, RefName(RowOfCall(i)[c]))
                    /\ calls[i].values[c] =
                         RegisteredValue(LastRegistered(i, RefName(RowOfCall(i)[c])),
                                         RefColumn(RowOfCall(i)[c]))

\* a reference to a generated id and one to a plain column, both to a name
\* that two rows registered
C5_Witness ==
    /\ pc = "done"
    /\ \E i, k \in Calls, c, d \in {c_name, c_dept} :
        /\ Inserted(i) /\ Inserted(k)
        /\ c \in DOMAIN calls[i].values /\ d \in DOMAIN calls[k].values
        /\ IsRef(RowOfCall(i)[c]) /\ IsRef(RowOfCall(k)[d])
        /\ RefColumn(RowOfCall(i)[c]) = c_id
        /\ RefColumn(RowOfCall(k)[d]) = c_name
        /\ \E j, l \in 1..(i - 1) :
            j # l /\ Registers(j, RefName(RowOfCall(i)[c])) /\ Registers(l, RefName(RowOfCall(i)[c]))

\* a driver call of a seed set returned Err and execute has returned
SeedSetFailed ==
    /\ pc = "failed"
    /\ \E f \in Calls : ~calls[f].ok /\ calls[f].ss # NoId
\* no delete_rows emptied the table of call j after call i
NotDeletedAfter(i, j) ==
    \A k \in (i + 1)..Len(calls) :
        ~(calls[k].op = "delete_rows" /\ calls[k].ok
          /\ sanitize_identifier(calls[k].table) = sanitize_identifier(calls[j].table))
CommittedAt(i) == calls[i].op = "commit_transaction" /\ calls[i].ok

\* C6: when a seed set fails, the seed sets that this run committed before
\* it stay marked and keep the rows they inserted (unless a later
\* delete_rows of reset mode emptied the table), the only call made after
\* the failing one is the rollback of the same seed set, and execute
\* returns the error.
C6_FailureKeepsEarlierSeedSets ==
    SeedSetFailed =>
        /\ \A i \in Calls :
            CommittedAt(i) =>
                /\ SeedSetAt(calls[i].ss).name \in db.tracking
                /\ \A j \in 1..(i - 1) :
                    (Inserted(j) /\ calls[j].ss = calls[i].ss /\ NotDeletedAfter(i, j))
                        => Holds(db, j)
        /\ \A f, j \in Calls :
            (f < j /\ ~calls[f].ok) =>
                calls[j].op = "rollback_transaction" /\ calls[j].ss = calls[f].ss
        /\ result # None /\ ~result[1].ok

C6_Witness ==
    /\ SeedSetFailed
    /\ \E i \in Calls :
        /\ CommittedAt(i)
        /\ \E j \in 1..(i - 1) : Inserted(j) /\ calls[j].ss = calls[i].ss /\ NotDeletedAfter(i, j)
        /\ \E f \in (i + 1)..Len(calls) : ~calls[f].ok /\ calls[f].ss # calls[i].ss

\* the step taken from here is the skip of an applied seed set: the seed set
\* is marked, the run is not in reset mode and is_seed_applied returns Ok
SkipStep ==
    /\ pc = "is_seed_applied"
    /\ ~reset
    /\ CurSeedSet.name \in View.tracking
    /\ pc' \notin {"failed", "crashed"}

\* C7: in non-reset mode, a seed set that is_seed_applied reports applied
\* is left without any further driver call: the only call is
\* is_seed_applied, the database, the connection and the reference store
\* are unchanged, and the executor is at the next seed set, at the next
\* phase or done.
C7_AppliedSeedSetIsSkipped ==
    [][SkipStep =>
        /\ UNCHANGED <<db, txn, in_transaction, refs>>
        /\ calls' = Append(calls, Call("is_seed_applied", CurId, <<>>, <<>>, TRUE, 1))
        /\ \/ pc' = "is_seed_applied" /\ phase_i' = phase_i /\ ss_i' = ss_i + 1
           \/ pc' = "execute_phase" /\ phase_i' = phase_i + 1
           \/ pc' = "done"]_vars

C7_Witness ==
    /\ ~reset
    /\ pc \in {"is_seed_applied", "execute_phase", "done"}
    /\ calls # <<>>
    /\ calls[Len(calls)].op = "is_seed_applied"
    /\ calls[Len(calls)].ok
    /\ calls[Len(calls)].val = 1
    /\ \E t \in Tables : db.tables[t] # {}

\* the successful calls of seed set id that precede call i
Before(i, id, op) == {k \in 1..(i - 1) : calls[k].op = op /\ calls[k].ok /\ calls[k].ss = id}

\* C8: in reset mode delete_rows on every table of a seed set and then
\* remove_seed_mark are complete before its begin_transaction; a successful
\* reset run has applied and marked every seed set; and after a successful
\* reset run of a plan that a first run seeded, every table has the row
\* count the first run left.
C8_ResetReseeds ==
    /\ reset =>
        \A i \in Calls :
            (calls[i].op = "begin_transaction") =>
                /\ \A t \in 1..Len(SeedSetAt(calls[i].ss).tables) :
                    \E k \in Before(i, calls[i].ss, "delete_rows") :
                        calls[k].table = SeedSetAt(calls[i].ss).tables[t].table
                /\ \E m \in Before(i, calls[i].ss, "remove_seed_mark") :
                    \A k \in Before(i, calls[i].ss, "delete_rows") : k < m
    /\ (reset /\ pc = "done") =>
        \A x \in TableSeeds :
            /\ \E i \in Calls : CommittedAt(i) /\ calls[i].ss = <<x[1], x[2]>>
            /\ SeedSetAt(x).name \in db.tracking
    /\ (reset /\ pc = "done" /\ run = 2 /\ prev.outcome = "done" /\ ~prev.reset) =>
        \A t \in Tables : Cardinality(db.tables[t]) = Cardinality(prev.db.tables[t])

\* C9: once begin_transaction has succeeded for a seed set, every error
\* that execute_seed_set returns comes after a rollback_transaction call
\* and leaves the driver Idle with no transaction open.
C9_ErrorLeavesDriverIdle ==
    (pc = "failed" /\ \E i \in Calls : /\ calls[i].op = "begin_transaction"
                                       /\ calls[i].ok
                                       /\ calls[i].ss = CurId) =>
        /\ calls[Len(calls)].op = "rollback_transaction"
        /\ ~in_transaction
        /\ txn = None

\* C10: when a table-seed step fails, the error execute_seed_set returns is
\* the step's error annotated with the seed-set name, also when the
\* rollback fails.
C10_StepErrorDominates ==
    (pc = "failed" /\ step_err # None) =>
        result = Some(Err(<<"seed set failed", CurSeedSet.name, step_err[1]>>))

\* C11: every mark_seed_applied and remove_seed_mark call is issued while
\* the driver is InTxn, inside the transaction begun for the same seed set
\* (the one its insert_row calls run in).
C11_TrackingWritesInTxn ==
    \A i \in Calls :
        calls[i].op \in {"mark_seed_applied", "remove_seed_mark"} =>
            OpenTxnOf(SubSeq(calls, 1, i - 1)) = calls[i].ss

\* the seed sets of the plan, as <<phase, seed set>> positions
SeedSets ==
    UNION {{<<p, q>> : q \in 1..Len(plan.phases[p].seed_sets)} : p \in 1..Len(plan.phases)}
Accepted == pc \notin {"from_yaml", "rejected"}

\* C12: a plan that validate accepts has pairwise distinct seed-set names
\* across all its phases.
C12_AcceptedNamesDistinct ==
    Accepted =>
        \A x, y \in SeedSets : x # y => SeedSetAt(x).name # SeedSetAt(y).name

\* the defects of a plan that C13 lists
NoPhase == plan.phases = <<>>
EmptyPhaseName == \E p \in 1..Len(plan.phases) : plan.phases[p].name = <<>>
BadWaitFor ==
    \E p \in 1..Len(plan.phases) :
        \E w \in 1..Len(plan.phases[p].wait_for) :
            \/ plan.phases[p].wait_for[w].obj_type \notin {t_table, t_view, t_schema, t_database}
            \/ plan.phases[p].wait_for[w].name = <<>>
BadSeedSet ==
    \E x \in SeedSets :
        \/ SeedSetAt(x).tables = <<>>
        \/ \E t \in 1..Len(SeedSetAt(x).tables) : SeedSetAt(x).tables[t].table = <<>>
EmptySeedSetName == \E x \in SeedSets : SeedSetAt(x).name = <<>>
Defective == NoPhase \/ EmptyPhaseName \/ BadWaitFor \/ BadSeedSet

\* C13: the loader returns an error for every plan with one of the listed
\* defects, and then no executor step runs; it accepts every plan that has
\* none of them and no empty seed-set name.
C13_ValidateRejectsDefects ==
    /\ pc # "from_yaml" =>
        /\ Defective => pc = "rejected"
        /\ (~Defective /\ ~EmptySeedSetName) => pc # "rejected"
    /\ pc = "rejected" =>
        /\ result # None /\ ~result[1].ok
        /\ run = 0 /\ calls = <<>>

C13_Witness ==
    /\ pc = "rejected"
    /\ BadWaitFor
    /\ ~NoPhase /\ ~EmptyPhaseName /\ ~BadSeedSet /\ ~EmptySeedSetName

\* C14: every identifier that sanitize_identifier emits into SQL consists
\* of characters of [A-Za-z0-9_] only.
C14_SanitizedIsAsciiWord ==
    sql # None =>
        \A i \in 1..Len(sql[1]) :
            sql[1][i] \in Lower \cup Upper \cup {Digits[d] : d \in 1..10} \cup {"_"}

\* the object_exists calls made for wait_for entry w of declared phase p
ProbesOf(p, w) ==
    {i \in Calls : /\ calls[i].op = "object_exists"
                   /\ calls[i].ss = <<p, 0>>
                   /\ calls[i].at = <<w, 0>>}
\* the effective timeout of that entry in milliseconds
EffectiveTimeout(p, w) ==
    LET wf == plan.phases[p].wait_for[w]
    IN IF wf.timeout # None THEN wf.timeout[1] * 1000 ELSE plan.phases[p].timeout * 1000
Waiting == pc \in {"object_exists", "sleep"}
LastCall == calls[Len(calls)]
\* the last probe answered Ok(false) and execute returned an error
TimedOut ==
    /\ pc = "failed"
    /\ calls # <<>>
    /\ LastCall.op = "object_exists" /\ LastCall.ok /\ LastCall.val = 0

\* what C15 says of every state: an entry is probed at most once per poll
\* interval of its effective timeout plus once, and when the wait gives up
\* the error names the formatted timeout, the type and the name and no
\* seed set of the phase has been started
C15_ProbesBounded ==
    /\ \A p \in 1..Len(plan.phases) :
        \A w \in 1..Len(plan.phases[p].wait_for) :
            Cardinality(ProbesOf(p, w)) <= (EffectiveTimeout(p, w) \div poll_interval) + 1
    /\ TimedOut =>
        LET p == LastCall.ss[1]
            w == LastCall.at[1]
            wf == plan.phases[p].wait_for[w]
        IN /\ result = Some(Err(<<"timeout after", format_duration(EffectiveTimeout(p, w)),
                                  wf.obj_type, wf.name>>))
           /\ \A i \in Calls : ~(calls[i].ss[1] = p /\ calls[i].ss[2] # 0)

\* C15: while object_exists keeps answering false wait_for_object
\* terminates: it probes a bounded number of times, returns the timeout
\* error with the formatted timeout, the object type and the object name,
\* starts no seed set of the phase, and every wait comes to an end.
C15_WaitForTerminates == []C15_ProbesBounded /\ (Waiting ~> ~Waiting)

C15_Witness ==
    /\ TimedOut
    /\ Cardinality(ProbesOf(LastCall.ss[1], LastCall.at[1])) > 1
    /\ result[1].e[1] = "timeout after"
    /\ result[1].e[2] = <<"1", "s">>

\* C16: an error of object_exists ends wait_for_object at once: it is the
\* last driver call, execute has returned the error for that object and
\* the executor neither sleeps nor probes again.
C16_ProbeErrorReturnsAtOnce ==
    \A i \in Calls :
        (calls[i].op = "object_exists" /\ ~calls[i].ok) =>
            /\ i = Len(calls)
            /\ pc = "failed"
            /\ result # None /\ ~result[1].ok
            /\ result[1].e[1] = "error checking"
            /\ result[1].e[2] = plan.phases[calls[i].ss[1]].wait_for[calls[i].at[1]].obj_type
            /\ result[1].e[3] = calls[i].table

C16_Witness ==
    /\ pc = "failed"
    /\ calls # <<>>
    /\ LastCall.op = "object_exists" /\ ~LastCall.ok
    /\ waited < EffectiveTimeout(LastCall.ss[1], LastCall.at[1])
    /\ Cardinality(ProbesOf(LastCall.ss[1], LastCall.at[1])) > 1

\* the subcommand of the process ran and returned
SubcommandReturned == main_pc = "exited" /\ cmd_result # None

SidecarMode == cli.sidecar_flag \/ cli.sidecar_env

\* C19: with sidecar mode enabled a process whose subcommand has finished
\* exits only if the subcommand failed, and then with a non-zero code; after
\* a successful subcommand it stays alive.
C19_SidecarStaysAlive ==
    (SubcommandReturned /\ SidecarMode) =>
        /\ ~cmd_result[1].ok
        /\ exit_status # Some(0)

\* the declared items of insert_row call i
PhaseOf(i) == plan.phases[calls[i].ss[1]]
TableOf(i) == SeedSetAt(calls[i].ss).tables[calls[i].at[1]]
\* x comes before y: by order value, by declared position on equal orders
Ahead(x, xpos, y, ypos) == x.order < y.order \/ (x.order = y.order /\ xpos < ypos)
\* insert_row call i is for a row that the plan places before that of call j
Precedes(i, j) ==
    IF calls[i].ss[1] # calls[j].ss[1]
    THEN Ahead(PhaseOf(i), calls[i].ss[1], PhaseOf(j), calls[j].ss[1])
    ELSE IF calls[i].ss[2] # calls[j].ss[2]
    THEN Ahead(SeedSetAt(calls[i].ss), calls[i].ss[2], SeedSetAt(calls[j].ss), calls[j].ss[2])
    ELSE IF calls[i].at[1] # calls[j].at[1]
    THEN Ahead(TableOf(i), calls[i].at[1], TableOf(j), calls[j].at[1])
    ELSE calls[i].at[2] < calls[j].at[2]

\* C20: in non-reset mode the insert_row calls of a run follow ascending
\* phase order, then ascending seed-set order within the phase, then
\* ascending table order within the seed set, then row declaration order
\* within the table; equal order values keep the declaration order.
C20_InsertOrder ==
    ~reset =>
        \A i, j \in Calls :
            (i < j /\ calls[i].op = "insert_row" /\ calls[j].op = "insert_row")
                => Precedes(i, j)

\* a non-reset run of the plan with ties inserted all its five rows
C20_Witness ==
    /\ ~reset
    /\ plan = PlanTies
    /\ pc = "done"
    /\ Cardinality({i \in Calls : Inserted(i)}) = 5

\* C21: in reset mode the tables of a seed set are emptied by delete_rows in
\* the exact reverse of the order in which apply_seed_set_tables seeds them:
\* of two delete_rows calls of a seed set the later one is for the table
\* seeded earlier, by order value and, on equal order values, by declaration.
C21_DeleteReversesApply ==
    reset =>
        \A i, j \in Calls :
            (/\ i < j
             /\ calls[i].op = "delete_rows" /\ calls[j].op = "delete_rows"
             /\ calls[i].ss = calls[j].ss)
                => Ahead(TableOf(j), calls[j].at[1], TableOf(i), calls[i].at[1])

\* C22 (as stated): two executors running the same plan concurrently against
\* the same database never both insert the rows of the same seed set: every
\* declared row is in the tables at most once.
C22_AppliedAtMostOnce ==
    \A x, y \in pg.rows :
        (x[2] = y[2] /\ x[3] = y[3] /\ x[4] = y[4]) => x[1] = y[1]

\* C22 (amended): an executor whose is_seed_applied check of a seed set
\* came after the other executor's commit of that seed set inserts none of
\* its rows.
C22_LateCheckSkips ==
    \A w \in DOMAIN workers :
        \A id \in workers[w].late : \A x \in workers[w].inserted : x[2] # id

\* one executor applied every seed set, the other checked each of them
\* afterwards and finished without an insert
C22_Witness ==
    /\ workers # <<>>
    /\ \E w \in Workers :
        /\ workers[w].pc = "done"
        /\ workers[w].late = {ExecutionOrder(plan)[k] : k \in 1..Len(ExecutionOrder(plan))}
        /\ workers[w].inserted = {}
        /\ pg.rows # {}

\* C23: in reset mode, when delete_rows or remove_seed_mark fails part-way
\* through the reset of a seed set, the durable state does not have that
\* seed set marked applied while delete_rows has already emptied one of its
\* tables.
C23_FailedResetUnmarks ==
    (/\ reset
     /\ pc = "failed"
     /\ calls[Len(calls)].op \in {"delete_rows", "remove_seed_mark"}
     /\ ~calls[Len(calls)].ok) =>
        \A i \in Calls :
            (/\ calls[i].op = "delete_rows"
             /\ calls[i].ss = calls[Len(calls)].ss
             /\ calls[i].ok
             /\ calls[i].val > 0)
                => SeedSetAt(calls[i].ss).name \notin db.tracking

\* declared row k of table seed x is in its table: some row of the table
\* carries the declared value in every column that is not an @ref
RowPresent(x, k) ==
    LET ts == TableSeedAt(x)
        row == ts.rows[k]
    IN \E r \in db.tables[sanitize_identifier(ts.table)] :
        \A c \in DOMAIN row \ {RefKey} :
            ~IsRef(row[c]) =>
                /\ sanitize_identifier(c) \in DOMAIN r.cols
                /\ r.cols[sanitize_identifier(c)] = resolve_value(row[c], <<>>).v

\* C24: after a successful reset run every seed set marked applied has all
\* of its declared rows in its tables, also when two seed sets seed the same
\* table, and the tables hold what a successful non-reset run of the plan on
\* a fresh database left in them.
C24_ResetKeepsSeedSets ==
    (reset /\ pc = "done") =>
        /\ \A x \in TableSeeds :
              SeedSetAt(x).name \in db.tracking =>
                  \A k \in 1..Len(TableSeedAt(x).rows) : RowPresent(x, k)
        /\ (run = 2 /\ prev.outcome = "done" /\ ~prev.reset) =>
              \A t \in Tables :
                  {r.cols : r \in db.tables[t]} = {r.cols : r \in prev.db.tables[t]}

\* the calls made by execute_seed_set
SeedSetCalls == {i \in Calls : calls[i].ss[2] # 0}

\* C25: in reset mode the seed sets of a phase are processed in descending
\* order of their order value, each one reset and re-applied before the next
\* is touched, while the phases are executed in ascending order.
C25_ResetSeedSetsDescend ==
    reset =>
        \A i, j \in SeedSetCalls :
            i < j =>
                /\ PhaseOf(i).order <= PhaseOf(j).order
                /\ (calls[i].ss[1] = calls[j].ss[1]) =>
                      SeedSetAt(calls[i].ss).order >= SeedSetAt(calls[j].ss).order
                /\ (calls[i].ss = calls[j].ss) =>
                      \A k \in SeedSetCalls : (i < k /\ k < j) => calls[k].ss = calls[i].ss

\* a reset run re-applied the higher-order seed set of a phase and then
\* reset and re-applied the lower-order one
C25_Witness ==
    /\ reset
    /\ pc = "done"
    /\ \E i, j \in SeedSetCalls :
        /\ i < j
        /\ calls[i].op = "commit_transaction" /\ calls[i].ok
        /\ calls[j].op = "delete_rows"
        /\ calls[i].ss[1] = calls[j].ss[1]
        /\ SeedSetAt(calls[i].ss).order > SeedSetAt(calls[j].ss).order

\* C26: a reset run of a plan whose non-reset run on the fresh database
\* succeeded succeeds too: it fails only when a driver call returned an
\* error or a wait_for object did not appear in time.
C26_ResetAfterSeedSucceeds ==
    (reset /\ run = 2 /\ prev.outcome = "done" /\ ~prev.reset /\ pc = "failed") =>
        \/ \E i \in Calls : ~calls[i].ok /\ calls[i].op # "resolve_value"
        \/ calls[Len(calls)].op = "object_exists"

\* a successful call op of the preflight of the phase of call j, before j
CreatedBefore(j, op) ==
    \E i \in 1..(j - 1) :
        calls[i].op = op /\ calls[i].ok /\ calls[i].ss = <<calls[j].ss[1], 0>>

\* C27: within a phase every seed-set operation comes after each wait_for
\* entry of the phase has been probed with object_exists = true, and when
\* create_if_missing is set the create_database / create_schema calls come
\* before the first object_exists probe of the phase.
C27_PreflightBeforeSeedSets ==
    /\ \A i \in SeedSetCalls :
          \A w \in 1..Len(PhaseOf(i).wait_for) :
              \E j \in 1..(i - 1) :
                  /\ calls[j].op = "object_exists"
                  /\ calls[j].ss[1] = calls[i].ss[1]
                  /\ calls[j].at[1] = w
                  /\ calls[j].ok /\ calls[j].val = 1
    /\ \A j \in Calls :
          (calls[j].op = "object_exists" /\ PhaseOf(j).create_if_missing) =>
              /\ PhaseOf(j).database # <<>> => CreatedBefore(j, "create_database")
              /\ PhaseOf(j).schema # <<>> => CreatedBefore(j, "create_schema")

\* the phase created its database and schema, found the table it waits for
\* and seeded it
C27_Witness ==
    /\ pc = "done"
    /\ \E i \in SeedSetCalls :
        /\ Inserted(i)
        /\ PhaseOf(i).wait_for # <<>>
        /\ \E j \in 1..(i - 1) :
            /\ calls[j].op = "object_exists" /\ calls[j].val = 1
            /\ CreatedBefore(j, "create_database")
            /\ CreatedBefore(j, "create_schema")

\* the @ref columns of the declared row of call i
RefColumns(i) == {c \in DOMAIN RowOfCall(i) \ {RefKey} : IsRef(RowOfCall(i)[c])}
\* no row carrying _ref: name was inserted before call i of this run
Unregistered(i, name) == \A j \in 1..(i - 1) : ~Registers(j, name)

\* C28: a row with an @ref:N.c column gets as far as row_exists or
\* insert_row only if a row carrying _ref N was inserted earlier in the run;
\* otherwise the resolution fails with the not-found error, the row is not
\* inserted, the next call is rollback_transaction and execute ends with
\* the seed set unmarked and none of its inserted rows in the database.
C28_UnregisteredRefFails ==
    \A i \in Calls :
        /\ calls[i].op \in {"insert_row", "row_exists"} =>
              \A c \in RefColumns(i) : ~Unregistered(i, RefName(RowOfCall(i)[c]))
        /\ (/\ calls[i].op = "resolve_value"
            /\ \E c \in RefColumns(i) : Unregistered(i, RefName(RowOfCall(i)[c]))) =>
              /\ step_err # None /\ step_err[1][1] = "reference not found"
              /\ \A k \in Calls :
                    calls[k].op = "insert_row" =>
                        ~(calls[k].ss = calls[i].ss /\ calls[k].at = calls[i].at)
              /\ \A k \in Calls : k > i => (k = i + 1 /\ calls[k].op = "rollback_transaction")
              /\ pc = "failed" =>
                    /\ SeedSetAt(calls[i].ss).name \notin db.tracking
                    /\ \A k \in Calls :
                          (Inserted(k) /\ calls[k].ss = calls[i].ss) => ~Holds(db, k)

\* the second row of a seed set named a reference that no row registered:
\* the first row had been inserted, the seed set was rolled back
C28_Witness ==
    /\ pc = "failed"
    /\ Len(calls) > 2
    /\ calls[Len(calls)].op = "rollback_transaction" /\ calls[Len(calls)].ok
    /\ calls[Len(calls) - 1].op = "resolve_value"
    /\ \E c \in RefColumns(Len(calls) - 1) :
          Unregistered(Len(calls) - 1, RefName(RowOfCall(Len(calls) - 1)[c]))
    /\ \E k \in Calls : Inserted(k) /\ calls[k].ss = calls[Len(calls)].ss

\* the name under which the declared row of call i asks to be registered
RefOfCall(i) == RowOfCall(i)[RefKey].s
\* row_exists found the row of call i, which carries _ref, and skipped it
SkippedRef(i) ==
    /\ calls[i].op = "row_exists" /\ calls[i].ok /\ calls[i].val = 1
    /\ RefKey \in DOMAIN RowOfCall(i)

\* C29 (as stated): every row carrying _ref that apply_table_seed processes
\* without error has its name in the reference store, whether the row was
\* inserted or skipped because row_exists found it.
C29_ProcessedRefRegisters ==
    \A i \in Calls :
        ((Inserted(i) /\ RefKey \in DOMAIN RowOfCall(i)) \/ SkippedRef(i)) =>
            RefOfCall(i) \in DOMAIN refs

\* C29 (amended): every row carrying _ref that apply_table_seed inserts has
\* its name in the reference store, with the submitted columns and the
\* generated id of the last such row, so that a later @ref resolves; a row
\* skipped because row_exists found it registers nothing.
C29_InsertedRefRegisters ==
    \A i \in Calls :
        /\ (Inserted(i) /\ RefKey \in DOMAIN RowOfCall(i)) =>
              /\ RefOfCall(i) \in DOMAIN refs
              /\ (\A k \in Calls : k > i => ~Registers(k, RefOfCall(i))) =>
                    \A c \in DOMAIN calls[i].values
                            \cup (IF TableSeedOfCall(i).auto_id # None
                                  THEN {TableSeedOfCall(i).auto_id[1].column} ELSE {}) :
                        /\ c \in DOMAIN refs[RefOfCall(i)]
                        /\ refs[RefOfCall(i)][c] = RegisteredValue(i, c)
        /\ (SkippedRef(i) /\ run = 1 /\ \A k \in Calls : ~Registers(k, RefOfCall(i))) =>
              RefOfCall(i) \notin DOMAIN refs

\* one row registered its reference with the generated id, the next row
\* with the same unique key was skipped
C29_Witness ==
    \E i, j \in Calls :
        /\ i < j
        /\ Registers(i, r_eng)
        /\ c_id \in DOMAIN refs[r_eng]
        /\ SkippedRef(j) /\ RefOfCall(j) = r_ops

\* a row of seed set id carries _ref: name
Declares(id, name) ==
    \E t \in 1..Len(SeedSetAt(id).tables) :
        \E r \in 1..Len(SeedSetAt(id).tables[t].rows) :
            /\ RefKey \in DOMAIN SeedSetAt(id).tables[t].rows[r]
            /\ SeedSetAt(id).tables[t].rows[r][RefKey] = String(name)
\* is_seed_applied found the seed set of call i marked, so it was skipped
SkippedAsApplied(i) ==
    calls[i].op = "is_seed_applied" /\ calls[i].ok /\ calls[i].val = 1

\* C30: in a non-reset run that follows a run in which a consuming seed set
\* failed, the references of a seed set that is skipped as already applied
\* are available: no @ref to a name declared by a skipped seed set fails to
\* resolve, so the consuming seed set is applied.
C30_SkippedSeedSetRefsAvailable ==
    (~reset /\ run = 2 /\ prev.outcome = "failed" /\ ~prev.reset) =>
        \A i, j \in Calls :
            (/\ i < j
             /\ SkippedAsApplied(i)
             /\ calls[j].op = "resolve_value" /\ ~calls[j].ok) =>
                \A c \in RefColumns(j) :
                    Unregistered(j, RefName(RowOfCall(j)[c])) =>
                        ~Declares(calls[i].ss, RefName(RowOfCall(j)[c]))

\* the flag that the transaction calls of log account for: set by the last
\* successful begin_transaction, cleared by a later successful commit or
\* rollback
RECURSIVE FlagAfter(_)
FlagAfter(log) ==
    IF log = <<>> THEN FALSE
    ELSE LET c == log[Len(log)]
         IN IF c.ok /\ c.op = "begin_transaction" THEN TRUE
            ELSE IF c.ok /\ c.op \in {"commit_transaction", "rollback_transaction"} THEN FALSE
            ELSE FlagAfter(SubSeq(log, 1, Len(log) - 1))
IdleEnd(i) ==
    /\ calls[i].op \in {"commit_transaction", "rollback_transaction"}
    /\ ~FlagAfter(SubSeq(calls, 1, i - 1))

\* C31: the in-transaction flag is true exactly when a begin_transaction
\* has succeeded and no commit or rollback has succeeded since; a commit or
\* rollback called while idle issues no statement and returns Ok, and a
\* failed call leaves the flag as it was.
C31_FlagTracksTransaction ==
    /\ in_transaction = FlagAfter(calls)
    /\ \A i \in DOMAIN calls : IdleEnd(i) => (calls[i].ok /\ calls[i].val = 0)
    /\ \A i \in DOMAIN calls :
          (calls[i].op \in {"commit_transaction", "rollback_transaction"} /\ ~IdleEnd(i)) =>
              calls[i].val = 1

\* a COMMIT failed and left the flag set, the next one went through, and a
\* rollback on the idle connection followed
C31_Witness ==
    /\ pc = "driver"
    /\ ~in_transaction
    /\ \E i \in DOMAIN calls :
          /\ i + 2 \in DOMAIN calls
          /\ calls[i].op = "commit_transaction" /\ ~calls[i].ok
          /\ calls[i + 1].op = "commit_transaction" /\ calls[i + 1].ok
          /\ calls[i + 2].op = "rollback_transaction" /\ calls[i + 2].val = 0

\* call i began a transaction
Began(i) == calls[i].op = "begin_transaction" /\ calls[i].ok
\* call k ended a transaction
Ended(k) == calls[k].op \in {"commit_transaction", "rollback_transaction"} /\ calls[k].ok

\* C32: within one execute call begin_transaction is invoked only while the
\* driver is idle, so at most one transaction is open at any time and the
\* transactions of two seed sets neither nest nor overlap.
C32_BeginOnlyWhenIdle ==
    /\ pc = "begin_transaction" => (~in_transaction /\ txn = None)
    /\ \A i, j \in Calls :
          (i < j /\ Began(i) /\ calls[j].op = "begin_transaction") =>
              \E k \in (i + 1)..(j - 1) : Ended(k) /\ calls[k].ss = calls[i].ss

\* the transaction of a second seed set is open after the first one's was
\* committed
C32_Witness ==
    /\ in_transaction
    /\ \E i, j \in Calls :
          /\ i < j /\ Began(i) /\ Began(j)
          /\ calls[i].ss # calls[j].ss
          /\ \A k \in Calls : k > j => ~Ended(k)

\* C33: the reference store is empty when an execute call starts: what one
\* execute registered is not visible to a later execute on the same
\* executor.
C33_RefsEmptyAtStart ==
    (pc = "ensure_tracking_table" /\ calls = <<>>) => refs = <<>>

\* C34: the reference store is append-only during a run: the record that a
\* row registered under its _ref name stays in the store as it was
\* registered, also when a later row declares the same name.
C34_RefsAppendOnly ==
    \A i \in Calls :
        (Inserted(i) /\ RefKey \in DOMAIN RowOfCall(i)) =>
            /\ RefOfCall(i) \in DOMAIN refs
            /\ \A c \in DOMAIN calls[i].values :
                  /\ c \in DOMAIN refs[RefOfCall(i)]
                  /\ refs[RefOfCall(i)][c] = RegisteredValue(i, c)

\* every table of seed set id has an empty rows list
AllEmpty(id) ==
    /\ id[2] # 0
    /\ \A t \in 1..Len(SeedSetAt(id).tables) : SeedSetAt(id).tables[t].rows = <<>>

\* C35: a seed set whose tables all have an empty rows list makes no
\* insert_row call; its transaction goes from begin straight to the mark
\* and the commit, after which it is marked applied, and the next
\* non-reset run finds it applied and skips it.
C35_EmptySeedSetMarked ==
    \A i \in Calls :
        AllEmpty(calls[i].ss) =>
            /\ calls[i].op \notin {"insert_row", "row_exists", "resolve_value"}
            /\ (Began(i) /\ i < Len(calls)) => calls[i + 1].op = "mark_seed_applied"
            /\ (calls[i].op = "commit_transaction" /\ calls[i].ok) =>
                  /\ SeedSetAt(calls[i].ss).name \in db.tracking
                  /\ calls[i - 1].op = "mark_seed_applied" /\ calls[i - 1].ok
            /\ (/\ ~reset /\ run = 2 /\ prev.outcome = "done"
                /\ calls[i].op = "is_seed_applied" /\ calls[i].ok) =>
                  /\ calls[i].val = 1
                  /\ \A k \in Calls :
                        calls[k].ss = calls[i].ss => calls[k].op = "is_seed_applied"

\* the second run has skipped the seed set without rows that the first
\* run committed
C35_Witness ==
    /\ ~reset /\ run = 2 /\ prev.outcome = "done" /\ ~prev.reset
    /\ pc = "done"
    /\ \E i \in Calls :
          /\ AllEmpty(calls[i].ss)
          /\ calls[i].op = "is_seed_applied" /\ calls[i].val = 1
    /\ \A t \in Tables : Cardinality(db.tables[t]) <= 1

\* the tracking calls made for seed set k of DriverSeedSets
TrackingCalls(k) ==
    {i \in DOMAIN calls :
        calls[i].op \in {"mark_seed_applied", "remove_seed_mark"} /\ calls[i].ss = <<1, k>>}
\* the last tracking call for seed set k was a mark
LastWasMark(k) ==
    \E i \in TrackingCalls(k) :
        /\ calls[i].op = "mark_seed_applied"
        /\ \A j \in TrackingCalls(k) : j <= i
\* no ROLLBACK has discarded what the calls wrote
NothingRolledBack ==
    \A i \in DOMAIN calls : ~(calls[i].op = "rollback_transaction" /\ calls[i].val = 1)

\* C36: after any sequence of mark_seed_applied and remove_seed_mark calls
\* is_seed_applied(s) is true exactly when the last call for s was a mark:
\* marking twice is the same as marking once, a remove undoes the mark, and
\* the calls for one seed set leave the status of the other alone.
C36_LastTrackingCallDecides ==
    (pc = "driver" /\ NothingRolledBack) =>
        \A k \in DOMAIN DriverSeedSets :
            /\ is_seed_applied(View, DriverSeedSets[k]) = LastWasMark(k)
            /\ Cardinality({s \in View.tracking : s = DriverSeedSets[k]}) <= 1

\* one seed set marked twice and then unmarked, the other marked
C36_Witness ==
    /\ pc = "driver"
    /\ Len(calls) = 4
    /\ calls[1].op = "mark_seed_applied" /\ calls[1].ss = <<1, 1>>
    /\ calls[2].op = "mark_seed_applied" /\ calls[2].ss = <<1, 1>>
    /\ calls[3].op = "mark_seed_applied" /\ calls[3].ss = <<1, 2>>
    /\ calls[4].op = "remove_seed_mark" /\ calls[4].ss = <<1, 1>>
    /\ ~is_seed_applied(View, n_s1)
    /\ is_seed_applied(View, n_s2)

\* the calls of f in the trace, and the events that follow event i
FCalls == {i \in DOMAIN retry_trace : retry_trace[i].ev = "f"}
Sleeps == {i \in DOMAIN retry_trace : retry_trace[i].ev = "sleep"}

\* C37: do_retry calls f with the attempt indices 0, 1, 2, ... and at most
\* max_attempts times; it stops at the first Ok and returns that index
\* with no error; when max_attempts calls have failed it returns the
\* all-attempts-failed error without computing a delay or sleeping after
\* the last call.
C37_AttemptsBounded ==
    /\ Cardinality(FCalls) <= retry_cfg.max_attempts
    /\ \A i \in FCalls :
          /\ retry_trace[i].n = Cardinality({j \in FCalls : j < i})
          /\ retry_trace[i].ok =>
                /\ i = Len(retry_trace)
                /\ retry_pc = "returned"
                /\ retry_result = Some(RetryResult(retry_trace[i].n, None))
          /\ (~retry_trace[i].ok /\ Cardinality({j \in FCalls : j <= i}) = retry_cfg.max_attempts) =>
                /\ i = Len(retry_trace)
                /\ retry_pc = "returned"
                /\ retry_result = Some(RetryResult(retry_trace[i].n,
                                       Some(<<"all attempts failed", retry_cfg.max_attempts>>)))
    /\ (retry_pc = "returned" /\ retry_result[1].err = None) =>
          (retry_trace # <<>> /\ retry_trace[Len(retry_trace)].ok
                              /\ retry_trace[Len(retry_trace)].ev = "f")

\* three calls failed with a sleep between them and do_retry gave up
C37_Witness ==
    /\ retry_pc = "returned"
    /\ retry_cfg.max_attempts = 3
    /\ Cardinality(FCalls) = 3
    /\ Cardinality(Sleeps) = 2
    /\ retry_result[1].err = Some(<<"all attempts failed", 3>>)

\* C38: with a deadline, when the delay computed after a failed attempt
\* would end after the deadline do_retry returns the deadline-exceeded
\* error at once: it does not sleep and does not call f again; every sleep
\* it does start is due to end by the deadline.
C38_NoCallPastDeadline ==
    /\ \A i \in DOMAIN retry_trace :
          (retry_trace[i].ev = "delay" /\ deadline # None) =>
              IF retry_trace[i].at + retry_trace[i].d > deadline[1]
              THEN /\ i = Len(retry_trace)
                   /\ retry_pc = "returned"
                   /\ retry_result =
                        Some(RetryResult(retry_trace[i].n,
                                         Some(<<"deadline exceeded", retry_trace[i].n + 1>>)))
              ELSE /\ i < Len(retry_trace)
                   /\ retry_trace[i + 1].ev = "sleep"
                   /\ retry_trace[i + 1].d = retry_trace[i].d
    /\ \A i \in Sleeps :
          /\ retry_trace[i - 1].ev = "delay"
          /\ deadline # None => retry_trace[i].at + retry_trace[i].d <= deadline[1]

\* the second failed attempt found the deadline out of reach after one
\* sleep that fitted
C38_Witness ==
    /\ retry_pc = "returned"
    /\ deadline # None
    /\ Cardinality(FCalls) = 2
    /\ Cardinality(Sleeps) = 1
    /\ retry_result[1].err = Some(<<"deadline exceeded", 2>>)
    /\ retry_cfg.max_attempts = 3

\* write calls i and j belong to the same emission
SameEmission(i, j) ==
    log_out[i].thread = log_out[j].thread /\ log_out[i].line = log_out[j].line

\* C39: when several threads log concurrently each line reaches the output
\* contiguously: the write calls of one emission are adjacent, made while
\* the emitting thread holds the output lock, and in one format.
C39_LinesAtomic ==
    \A i \in DOMAIN log_out :
        /\ log_out[i].part > 1 =>
              /\ SameEmission(i - 1, i)
              /\ log_out[i - 1].part = log_out[i].part - 1
              /\ log_out[i - 1].json = log_out[i].json
        /\ log_out[i].part < line_parts =>
              IF i = Len(log_out)
              THEN out_lock = log_out[i].thread /\ loggers[out_lock].pc = "writeln"
              ELSE SameEmission(i, i + 1)

\* both threads have logged, one line in each format, while the other
\* thread was between its calls of log
C39_Witness ==
    /\ Len(log_out) >= 2 * line_parts
    /\ \E i, j \in DOMAIN log_out :
          /\ log_out[i].thread # log_out[j].thread
          /\ log_out[i].json # log_out[j].json
    /\ \E t \in LogThreads : loggers[t].pc = "lock_out" /\ out_lock \notin {0, t}

\* the lines logged for stream s, in order
LoggedOf(s) ==
    LET RECURSIVE Pick(_)
        Pick(i) == IF i = 0 THEN <<>>
                   ELSE IF logged[i].stream = s THEN Append(Pick(i - 1), logged[i].line)
                   ELSE Pick(i - 1)
    IN Pick(Len(logged))

\* C40: run_command_in_dir returns the exit code only after both readers
\* have reached the end of their stream: by then every line the child
\* wrote has been logged exactly once, in order, and while the threads run
\* a pipe that holds a line has a reader that will take it.
C40_AllLinesLoggedBeforeReturn ==
    /\ command_pc = "returned" =>
          \A s \in Streams :
              /\ pipes[s].buf = <<>> /\ ~pipes[s].writer_open
              /\ LoggedOf(s) = [k \in 1..child.written[s] |-> k]
    /\ \A s \in Streams : pipes[s].buf # <<>> => readers[s] = "lines"

====
